---- MODULE Spec2Model ----
(***************************************************************************)
(* Model of the MetaDAO threshold tracker: the proposal data acquisition   *)
(* cascade of src/src/metadao.ts (fetchProposalData and its five           *)
(* strategies) and the threshold history store and report builder of       *)
(* src/src/tracker.ts (loadHistory, saveHistory, recordThreshold,          *)
(* getThresholdReport).                                                    *)
(*                                                                         *)
(* The specifications share the variables:                                 *)
(*   Spec          one fetch cycle after another of fetchProposalData      *)
(*   SpecTracker   recordThreshold / getThresholdReport on a persisted     *)
(*                 file drawn from missing, corrupt and well-formed states *)
(*   SpecReport    getThresholdReport on short histories around the hour   *)
(*   SpecRotation  a long run of appends that crosses the 168-entry cap    *)
(*   SpecCycles    update cycles of sendThresholdUpdate, one after another *)
(*   SpecRace      recordThreshold run by two scheduler instances at once  *)
(*   SpecOverlap   sendThresholdUpdate called twice in one process         *)
(*   SpecDecode    the three account decoders on sample buffers            *)
(*   SpecRpc       fetchFromSolanaRpc, one step per await                  *)
(*   SpecPrices    the prices of fetchFromSolanaRpc in double precision    *)
(*   SpecPage      the two page strategies on sample pages                 *)
(*   SpecBrowser   fetchFromWebpageWithPuppeteer, one step per await       *)
(*   SpecBrowserFair  the same, with the steps the runtime is sure to take *)
(***************************************************************************)
EXTENDS Integers, Sequences, FiniteSets, TLC

VARIABLES
    isWorkers,  \* metadao.ts:877 the runtime cannot host a headless browser
    pc,         \* position of fetchProposalData: "call", "await", "done"
    idx,        \* index in Order of the strategy being called or awaited
    endpoint,   \* fetchFromGraphQL: index of the endpoint being queried
    inflight,   \* strategies invoked and not yet settled
    calls,      \* per strategy, the number of invocations in this cycle
    env,        \* per strategy, what its environment last answered
    result,     \* per strategy, what its promise settled to
    ret,        \* what fetchProposalData settled to
    file,       \* threshold_history.json as it is on disk
    now,        \* the wall clock, in milliseconds
    last,       \* the last tracker operation: its input, the file before, its outcome
    appended,   \* every snapshot handed to recordThreshold, in call order
    persistOk,  \* every writeFileSync so far succeeded
    sched,      \* per scheduler instance, where its recordThreshold stands
    cycles,     \* per update cycle of one process, where sendThresholdUpdate stands
    buffer,     \* the account data handed to the decoders
    parsed,     \* what each decoder returned for it
    reply,      \* fetchFromGraphQL: what the endpoint queried last answered
    chain,      \* the accounts the RPC node holds
    rpc,        \* fetchFromSolanaRpc: its position, lookups and result
    pools,      \* the two pool accounts and what fetchFromSolanaRpc makes of them
    page,       \* the proposal page as the site serves it
    web,        \* fetchFromWebpage: its position, timer, requests and result
    rendered,   \* what the rendered-page extraction made of the page
    browser     \* fetchFromWebpageWithPuppeteer: its position, timers and result

vars == <<isWorkers, pc, idx, endpoint, inflight, calls, env, result, ret,
          file, now, last, appended, persistOk, sched, cycles, buffer, parsed,
          reply, chain, rpc, pools, page, web, rendered, browser>>

fetchVars == <<isWorkers, pc, idx, endpoint, inflight, calls, env, result, ret,
               reply>>

trackerVars == <<file, now, last, appended, persistOk>>

raceVars == <<sched, cycles>>

decoderVars == <<buffer, parsed>>

chainVars == <<chain, rpc, pools>>

pageVars == <<page, web, rendered, browser>>

(***************************************************************************)
(* Values                                                                  *)
(***************************************************************************)

\* config.proposal.pubkey, and another proposal's address
ConfigPubkey == "6cdhy4"

OtherPubkey == "other"

Pubkeys == {ConfigPubkey, OtherPubkey}

\* ProposalData | null | a rejected promise, in one record shape.  passTwap and
\* failTwap are carried by the source's ProposalData but read neither by the
\* orchestrator nor by the tracker; they are left out.
ProposalData(pk, pass, fail, thr, st, ts) ==
    [kind |-> "snapshot", proposalPubkey |-> pk, passPrice |-> pass,
     failPrice |-> fail, threshold |-> thr, status |-> st, timestamp |-> ts]

Null == [kind |-> "null", proposalPubkey |-> "", passPrice |-> 0,
         failPrice |-> 0, threshold |-> 0, status |-> "", timestamp |-> 0]

Thrown == [kind |-> "throw", proposalPubkey |-> "", passPrice |-> 0,
           failPrice |-> 0, threshold |-> 0, status |-> "", timestamp |-> 0]

NotRun == [kind |-> "notrun", proposalPubkey |-> "", passPrice |-> 0,
           failPrice |-> 0, threshold |-> 0, status |-> "", timestamp |-> 0]

Pending == [kind |-> "pending", proposalPubkey |-> "", passPrice |-> 0,
            failPrice |-> 0, threshold |-> 0, status |-> "", timestamp |-> 0]

\* `if (data)`: a ProposalData object is truthy, null is not
Truthy(r) == r.kind = "snapshot"

\* ((passPrice - failPrice) / failPrice) * 100 when failPrice > 0, else 0.
\* The prices of the model are chosen so that the quotient is exact.
PriceThresholdOfRatio(pass, fail) ==
    IF fail > 0 THEN (pass * 100) \div fail ELSE 0

PriceThreshold(pass, fail) ==
    IF fail > 0 THEN ((pass - fail) * 100) \div fail ELSE 0

\* `x || 0` on an optional number: absent (undefined) and 0 both give 0
Absent == -1

OrZero(x) == IF x = Absent \/ x = 0 THEN 0 ELSE x

(***************************************************************************)
(* The five strategies (metadao.ts).  Each is a function of what its       *)
(* environment answers; a step that throws inside the strategy is Thrown   *)
(* until the enclosing catch block turns it into null.                     *)
(***************************************************************************)

Continue == [kind |-> "continue", proposalPubkey |-> "", passPrice |-> 0,
             failPrice |-> 0, threshold |-> 0, status |-> "", timestamp |-> 0]

\* `try { body } catch (error) { return null; }`
CatchReturnNull(body) == IF body.kind = "throw" THEN Null ELSE body

\* metadao.ts:43-48
GRAPHQL_ENDPOINTS == <<"www.metadao.fi", "prod.backend.metadao.fi",
                       "api.metadao.fi", "indexer.metadao.fi">>

GraphQLFailures ==
    {"network_error", "non_ok", "bad_json", "no_data", "proposal_only",
     "details_only"}

\* What one endpoint answers: a failure, or a result holding proposals[0] and
\* proposal_details[0] (pass_price / fail_price optional)
GraphQLResponses ==
    [kind : GraphQLFailures, proposal_acct : {""}, status : {""},
     pass_price : {Absent}, fail_price : {Absent}]
    \cup
    [kind : {"ok"}, proposal_acct : Pubkeys, status : {"Pending", "Passed"},
     pass_price : {Absent, 0, 9, 12}, fail_price : {Absent, 0, 10}]

\* No endpoint has answered in this invocation
NoReply ==
    [kind |-> "none", proposal_acct |-> "", status |-> "",
     pass_price |-> Absent, fail_price |-> Absent]

\* The body of the try block of one loop iteration (metadao.ts:71-110)
GraphQLTryBody(r, ts) ==
    CASE r.kind = "network_error" -> Thrown      \* fetch rejects
      [] r.kind = "non_ok"        -> Continue    \* !response.ok: continue
      [] r.kind = "bad_json"      -> Thrown      \* response.json() rejects, or data is null
      [] r.kind = "no_data"       -> Continue    \* neither branch of the if returns
      [] r.kind = "proposal_only" -> Continue    \* proposal but no details
      [] r.kind = "details_only"  -> Continue    \* details but no proposal
      [] r.kind = "ok" ->
            LET passPrice == OrZero(r.pass_price)
                failPrice == OrZero(r.fail_price)
            IN  ProposalData(r.proposal_acct, passPrice, failPrice,
                             PriceThreshold(passPrice, failPrice), r.status, ts)

\* One loop iteration with its empty catch (metadao.ts:70-112): a throw falls
\* through to the next endpoint
GraphQLEndpointGivesUp(r, ts) ==
    LET body == GraphQLTryBody(r, ts)
    IN  IF body.kind = "throw" THEN Null ELSE body

GraphQLEndpoint(r, ts) ==
    LET body == GraphQLTryBody(r, ts)
    IN  IF body.kind = "throw" THEN Continue ELSE body

PuppeteerFailures ==
    {"import_fails", "no_default", "launch_fails", "no_response", "goto_throws",
     "challenge_stuck", "wrong_url", "evaluate_throws", "nothing_found"}

PuppeteerSuccesses == {"next_data", "text_threshold", "fallback_match"}

\* Threshold values a page can show
PageThresholds == {5, -3}

\* fetchFromWebpageWithPuppeteer inside its outer try (metadao.ts:383-646);
\* thr is the threshold the page yields when it yields one
PuppeteerTryBody(o, thr, ts) ==
    CASE o = "import_fails"    -> Null     \* 385-390
      [] o = "no_default"      -> Null     \* 392-394
      [] o = "launch_fails"    -> Null     \* 409-411
      [] o = "no_response"     -> Null     \* 436-438
      [] o = "goto_throws"     -> Null     \* 465-467
      [] o = "challenge_stuck" -> Null     \* 460-463
      [] o = "wrong_url"       -> Null     \* 470-473
      [] o = "evaluate_throws" -> Thrown   \* 476, 479: page.evaluate rejects
      [] o = "nothing_found"   -> Null     \* 637
      [] o \in PuppeteerSuccesses ->
            ProposalData(ConfigPubkey, 0, 0, thr, "active", ts)

FetchFromWebpageWithPuppeteer(o, thr, ts) ==
    CatchReturnNull(PuppeteerTryBody(o, thr, ts))      \* 647-649

WebpageFailures ==
    {"fetch_rejects", "rate_limited", "non_ok", "text_rejects",
     "threshold_not_number", "nothing_found"}

\* fetchFromWebpage inside its try (metadao.ts:655-826)
WebpageTryBody(o, thr, ts) ==
    CASE o = "fetch_rejects"        -> Thrown   \* 659
      [] o = "rate_limited"         -> Null     \* 675-691, status 429
      [] o = "non_ok"               -> Null     \* 675-691
      [] o = "text_rejects"         -> Thrown   \* 693
      [] o = "threshold_not_number" -> Thrown   \* 812: toFixed is not a function
      [] o = "nothing_found"        -> Null     \* 826
      [] o = "threshold_found"      ->
            ProposalData(ConfigPubkey, 0, 0, thr, "active", ts)

FetchFromWebpage(o, thr, ts) ==
    CatchReturnNull(WebpageTryBody(o, thr, ts))        \* 827-834

RpcFailures ==
    {"rpc_error", "no_account", "proposal_undecodable", "no_question",
     "question_undecodable", "pool_absent", "pool_lookup_rejects",
     "reserves_undecodable"}

\* Pool prices quoteReserves / baseReserves the chain can yield
RpcPrices == {<<12, 10>>, <<9, 10>>}

\* fetchFromSolanaRpc inside its try (metadao.ts:304-374)
RpcTryBody(o, prices, ts) ==
    CASE o = "rpc_error"            -> Thrown   \* 307, 321: getAccountInfo rejects
      [] o = "no_account"           -> Null     \* 309-311
      [] o = "proposal_undecodable" -> Null     \* 313-316
      [] o = "no_question"          -> Null     \* 322-324
      [] o = "question_undecodable" -> Null     \* 326-329
      [] o = "pool_absent"          -> Null     \* 338-343
      [] o = "pool_lookup_rejects"  -> Thrown   \* 332-335: Promise.all rejects
      [] o = "reserves_undecodable" -> Null     \* 349-351
      [] o = "ok" ->
            ProposalData(ConfigPubkey, prices[1], prices[2],
                         PriceThreshold(prices[1], prices[2]), "pending", ts)

FetchFromSolanaRpcNoCatch(o, prices, ts) == RpcTryBody(o, prices, ts)

FetchFromSolanaRpc(o, prices, ts) ==
    CatchReturnNull(RpcTryBody(o, prices, ts))         \* 375-377

MarketOutcomes ==
    {"fetch_rejects", "non_ok", "json_rejects", "not_an_array",
     "symbol_found", "symbol_absent"}

\* fetchFromMarketApi inside its try (metadao.ts:840-867)
MarketTryBodyQuoting(o) ==
    CASE o = "fetch_rejects" -> Thrown
      [] o = "non_ok"        -> Null
      [] o = "json_rejects"  -> Thrown
      [] o = "not_an_array"  -> Thrown
      [] o = "symbol_found"  -> ProposalData(ConfigPubkey, 0, 0, 0, "unknown", 0)
      [] o = "symbol_absent" -> Null

MarketTryBody(o) ==
    CASE o = "fetch_rejects" -> Thrown   \* 840
      [] o = "non_ok"        -> Null     \* 847-850
      [] o = "json_rejects"  -> Thrown   \* 852
      [] o = "not_an_array"  -> Thrown   \* 855: tickers.find is not a function
      [] o = "symbol_found"  -> Null     \* 859-867
      [] o = "symbol_absent" -> Null     \* 867

FetchFromMarketApi(o) == CatchReturnNull(MarketTryBody(o))   \* 868-871

(***************************************************************************)
(* The account decoders (metadao.ts:118-300).  A Buffer is a sequence of   *)
(* bytes; offsets count from 0 as in the source.                           *)
(***************************************************************************)

\* Buffer.subarray(start, end)
Subarray(data, start, end) ==
    SubSeq(data, start + 1, IF end <= Len(data) THEN end ELSE Len(data))

\* new PublicKey(bytes): the address made of these bytes
PublicKey(bytes) == [bytes |-> bytes]

ReadUInt8(data, offset) == data[offset + 1]

\* Buffer.readUInt32LE.  The model's integers are 32 bits wide: the buffers
\* decoded keep the fourth byte below 128.
ReadUInt32BE(data, offset) ==
    data[offset + 4] + 256 * data[offset + 3] + 65536 * data[offset + 2]
       + 16777216 * data[offset + 1]

ReadUInt32LE(data, offset) ==
    data[offset + 1] + 256 * data[offset + 2] + 65536 * data[offset + 3]
       + 16777216 * data[offset + 4]

\* The number whose little-endian base-256 digits are bytes[from..Len(bytes)]
RECURSIVE LittleEndian(_, _)
LittleEndian(bytes, from) ==
    IF from > Len(bytes) THEN 0
    ELSE bytes[from] + 256 * LittleEndian(bytes, from + 1)

\* Buffer.readBigInt64LE: two's complement, the sign in the top bit of the
\* eighth byte; a negative value is -(1 + the value of the complemented bytes)
ReadBigInt64LE(data, offset) ==
    LET bytes == SubSeq(data, offset + 1, offset + 8)
    IN  IF bytes[8] < 128
          THEN LittleEndian(bytes, 1)
          ELSE 0 - (1 + LittleEndian([i \in 1..8 |-> 255 - bytes[i]], 1))

\* Buffer.readBigUInt64LE: a bigint, held as its four 16-bit words, the most
\* significant first
ReadBigUInt64LE(data, offset) ==
    [k \in 1..4 |->
        data[offset + 2 * (4 - k) + 1] + 256 * data[offset + 2 * (4 - k) + 2]]

\* a < b on bigints
BigLess(a, b) ==
    \E k \in 1..4 : a[k] < b[k] /\ \A j \in 1..(k - 1) : a[j] = b[j]

\* 1000n and BigInt(10 ** 18) = 0x0DE0 B6B3 A764 0000 (metadao.ts:290)
Big1000 == <<0, 0, 0, 1000>>

BigTenTo18 == <<3552, 46771, 42852, 0>>

\* `return null` of a decoder
ParsedNull == [kind |-> "null"]

\* metadao.ts:161
ProposalMinSize ==
    8 + 4 + 32 + 8 + 1 + 32 + 32 + 32 + 1 + 32 + 4 + 32 + 32 + 32 + 32 + 32 + 1

\* parseProposalAccount (metadao.ts:140-236).  Past the length test every read
\* is inside the buffer and every address has 32 bytes, so nothing throws.
ParseProposalAccount(data) ==
    IF Len(data) < ProposalMinSize THEN ParsedNull
    ELSE LET o1  == 8                \* skip discriminator
             o2  == o1 + 4           \* number
             o3  == o2 + 32          \* proposer
             o4  == o3 + 8           \* timestampEnqueued
             o5  == o4 + 1           \* state
             o6  == o5 + 32          \* baseVault
             o7  == o6 + 32          \* quoteVault
             o8  == o7 + 32          \* dao
             o9  == o8 + 1           \* pdaBump
             o10 == o9 + 32          \* question
             o11 == o10 + 4          \* durationInSeconds
             o12 == o11 + 32         \* squadsProposal
             o13 == o12 + 32         \* passBaseMint
             o14 == o13 + 32         \* passQuoteMint
             o15 == o14 + 32         \* failBaseMint
             o16 == o15 + 32         \* failQuoteMint
         IN  [kind |-> "proposal",
              number |-> ReadUInt32LE(data, o1),
              proposer |-> PublicKey(Subarray(data, o2, o2 + 32)),
              timestampEnqueued |-> ReadBigInt64LE(data, o3),
              state |-> ReadUInt8(data, o4),
              baseVault |-> PublicKey(Subarray(data, o5, o5 + 32)),
              quoteVault |-> PublicKey(Subarray(data, o6, o6 + 32)),
              dao |-> PublicKey(Subarray(data, o7, o7 + 32)),
              pdaBump |-> ReadUInt8(data, o8),
              question |-> PublicKey(Subarray(data, o9, o9 + 32)),
              durationInSeconds |-> ReadUInt32LE(data, o10),
              squadsProposal |-> PublicKey(Subarray(data, o11, o11 + 32)),
              passBaseMint |-> PublicKey(Subarray(data, o12, o12 + 32)),
              passQuoteMint |-> PublicKey(Subarray(data, o13, o13 + 32)),
              failBaseMint |-> PublicKey(Subarray(data, o14, o14 + 32)),
              failQuoteMint |-> PublicKey(Subarray(data, o15, o15 + 32)),
              isTeamSponsored |-> (ReadUInt8(data, o16) # 0)]

\* metadao.ts:253
QuestionMinSize == 64

\* parseQuestionAccount (metadao.ts:247-264)
ParseQuestionAccount(data) ==
    IF Len(data) < QuestionMinSize THEN ParsedNull
    ELSE [kind |-> "question",
          passAmm |-> PublicKey(Subarray(data, 0, 32)),
          failAmm |-> PublicKey(Subarray(data, 32, 64))]

\* metadao.ts:272
AmmMinSize == 100

\* metadao.ts:278-282
PossibleOffsetsSwapped(data) == <<8 + 32 * 5, 8 + 32 * 6, Len(data) - 16>>

PossibleOffsets(data) == <<8 + 32 * 6, 8 + 32 * 5, Len(data) - 16>>

\* metadao.ts:285-290: the offset holds two plausible reserves
Plausible(data, offset) ==
    /\ offset + 16 <= Len(data) /\ offset >= 0
    /\ LET val1 == ReadBigUInt64LE(data, offset)
           val2 == ReadBigUInt64LE(data, offset + 8)
       IN  /\ BigLess(Big1000, val1) /\ BigLess(Big1000, val2)
           /\ BigLess(val1, BigTenTo18) /\ BigLess(val2, BigTenTo18)

\* The candidate offsets tried in order: the first plausible one wins
FirstPlausible(data) ==
    LET offsets == PossibleOffsets(data)
        hits == {k \in 1..Len(offsets) : Plausible(data, offsets[k])}
    IN  IF hits = {} THEN ParsedNull
        ELSE LET k == CHOOSE h \in hits : \A g \in hits : h <= g
             IN  [kind |-> "reserves",
                  baseReserves |-> ReadBigUInt64LE(data, offsets[k]),
                  quoteReserves |-> ReadBigUInt64LE(data, offsets[k] + 8)]

\* parseAmmAccount (metadao.ts:267-300)
ParseAmmAccountAnyLength(data) == FirstPlausible(data)

ParseAmmAccount(data) ==
    IF Len(data) < AmmMinSize THEN ParsedNull ELSE FirstPlausible(data)

\* No decoder has run
NotParsed ==
    [proposal |-> [kind |-> "notrun"], question |-> [kind |-> "notrun"],
     amm |-> [kind |-> "notrun"]]

\* The decoders' variables while they are not exercised
DecoderIdle ==
    /\ buffer = <<>>
    /\ parsed = NotParsed

(***************************************************************************)
(* The threshold history store (tracker.ts:1-76)                           *)
(***************************************************************************)

\* Milliseconds: a minute, `60 * 60 * 1000` (tracker.ts:80) and
\* `10 * 60 * 1000` (tracker.ts:100)
Minute == 60 * 1000

OneHour == 60 * 60 * 1000

TenMinutes == 10 * 60 * 1000

\* tracker.ts:71-72
HistoryCap == 168

\* Date.prototype.toISOString and `new Date(string)`: the ISO text keeps the
\* milliseconds, so parsing it gives back the instant
ToISOString(t) == <<"iso", t>>

DateParse(str) == str[2]

\* tracker.ts:61-66
StaleEntry(data) ==
    [timestamp |-> ToISOString(data.timestamp), threshold |-> 0,
     passPrice |-> data.passPrice, failPrice |-> data.failPrice]

HistoryEntry(data) ==
    [timestamp |-> ToISOString(data.timestamp), threshold |-> data.threshold,
     passPrice |-> data.passPrice, failPrice |-> data.failPrice]

\* threshold_history.json on disk.  kind: "missing" (no such file),
\* "unreadable" (readFileSync throws), "unparseable" (JSON.parse throws),
\* "falsy" (the JSON text null, false, 0 or ""), "object" (any other JSON
\* value).  Of an object, proposalPubkey is a string or "undefined", and
\* entriesKind says what its entries property is: "array", "absent"
\* (undefined) or "string".
FileOf(kind, pk, ek, entries) ==
    [kind |-> kind, proposalPubkey |-> pk, entriesKind |-> ek, entries |-> entries]

MissingFile == FileOf("missing", "undefined", "absent", <<>>)

UnreadableFile == FileOf("unreadable", "undefined", "absent", <<>>)

UnparseableFile == FileOf("unparseable", "undefined", "absent", <<>>)

FalsyFile == FileOf("falsy", "undefined", "absent", <<>>)

\* A ThresholdHistory as recordThreshold builds and saves it
ThresholdHistory(pk, entries) == FileOf("object", pk, "array", entries)

\* loadHistory (tracker.ts:31-41): null when the file is missing or reading or
\* parsing it throws, else whatever JSON.parse returns, cast without a check
NoHistory == FileOf("null", "undefined", "absent", <<>>)

LoadHistory(f) ==
    IF f.kind \in {"missing", "unreadable", "unparseable"} THEN NoHistory ELSE f

\* `!history`: null and the falsy JSON values
Falsy(h) == h.kind \in {"null", "falsy"}

\* `history.entries.slice(-168)` when longer than 168 (tracker.ts:71-73)
KeepOldest(entries) ==
    IF Len(entries) > HistoryCap THEN SubSeq(entries, 1, HistoryCap) ELSE entries

KeepAll(entries) == entries

KeepLast(entries) ==
    IF Len(entries) > HistoryCap
      THEN SubSeq(entries, Len(entries) - HistoryCap + 1, Len(entries))
      ELSE entries

\* The history recordThreshold goes on with (tracker.ts:54-59)
KeepLoaded(h, data) == h

StartOrContinue(h, data) ==
    IF Falsy(h) \/ h.proposalPubkey # data.proposalPubkey
      THEN ThresholdHistory(data.proposalPubkey, <<>>)
      ELSE h

\* How writeFileSync ends: "ok"; "refused", it throws before touching the file;
\* "torn", it throws after truncating it
WriteOutcomes == {"ok", "refused", "torn"}

\* saveHistory (tracker.ts:43-49): the file after the write; a throw is logged
SaveHistory(f, history, w) ==
    CASE w = "ok"      -> history
      [] w = "refused" -> f
      [] w = "torn"    -> UnparseableFile

\* `history.entries.push({...})` and the cap (tracker.ts:61-73): the history
\* as recordThreshold holds it before saving
UnshiftEntry(history, data) ==
    ThresholdHistory(history.proposalPubkey,
                     KeepLast(<<HistoryEntry(data)>> \o history.entries))

PushEntry(history, data) ==
    ThresholdHistory(history.proposalPubkey,
                     KeepLast(Append(history.entries, HistoryEntry(data))))

\* recordThreshold (tracker.ts:51-76) on file f: whether it raises, and the
\* file it leaves.  `history.entries.push` raises a TypeError when entries is
\* not an array.
RecordThresholdOn(f, data, w) ==
    LET history == StartOrContinue(LoadHistory(f), data)
    IN  IF history.entriesKind # "array"
          THEN [raised |-> TRUE, file |-> f]
          ELSE [raised |-> FALSE,
                file |-> SaveHistory(f, PushEntry(history, data), w)]

\* Two scheduler instances (two processes) over one threshold_history.json
Instances == {1, 2}

\* An instance that has not entered recordThreshold
NotStarted ==
    [pc |-> "start", data |-> Null, pre |-> MissingFile, history |-> NoHistory,
     write |-> "none", turn |-> 0]

\* A call of sendThresholdUpdate that has not been made
CycleNotStarted ==
    [pc |-> "idle", data |-> Null, entered |-> MissingFile, write |-> "none",
     raised |-> FALSE, sent |-> "none", returned |-> FALSE]

\* The instances' variables while a single scheduler runs
RaceIdle ==
    /\ sched = [i \in Instances |-> NotStarted]
    /\ cycles = [i \in Instances |-> CycleNotStarted]

(***************************************************************************)
(* The report builder (tracker.ts:78-125)                                  *)
(***************************************************************************)

Abs(x) == IF x < 0 THEN -x ELSE x

\* number | null
NullNumber == [null |-> TRUE, v |-> 0]

Number(x) == [null |-> FALSE, v |-> x]

\* String.prototype.toLowerCase on the status labels of the model
ToLowerCase(st) ==
    CASE st = "Passed"   -> "passed"
      [] st = "PASSED"   -> "passed"
      [] st = "Failed"   -> "failed"
      [] st = "Executed" -> "executed"
      [] st = "Pending"  -> "pending"
      [] st = "Unknown"  -> "unknown"
      [] OTHER           -> st

\* tracker.ts:87-88
IsFinalizedExact(st) == st \in {"passed", "failed", "executed"}

IsFinalized(st) == ToLowerCase(st) \in {"passed", "failed", "executed"}

\* `diff < 10 * 60 * 1000` (tracker.ts:100)
InWindowClosed(diff) == diff <= TenMinutes

InWindow(diff) == diff < TenMinutes

\* `diff < closestDiff` (tracker.ts:100); closestDiff starts at Infinity
CloserOrEqual(diff, hasClosest, closestDiff) == ~hasClosest \/ diff <= closestDiff

Closer(diff, hasClosest, closestDiff) == ~hasClosest \/ diff < closestDiff

\* The body of the loop of tracker.ts:95-104 for entry i; closest is the
\* index of closestEntry, 0 while it is null
ScanStep(entries, oneHourAgo, closest, i) ==
    LET diff == Abs(DateParse(entries[i].timestamp) - oneHourAgo)
        closestDiff ==
            IF closest = 0 THEN 0
            ELSE Abs(DateParse(entries[closest].timestamp) - oneHourAgo)
    IN  IF Closer(diff, closest # 0, closestDiff) /\ InWindow(diff)
          THEN i ELSE closest

\* The loop over entries lo..hi entered with closest: the steps run in index
\* order, the range being split in two only to keep the evaluation shallow
RECURSIVE ScanEntries(_, _, _, _, _)
ScanEntries(entries, oneHourAgo, lo, hi, closest) ==
    IF lo > hi THEN closest
    ELSE IF lo = hi THEN ScanStep(entries, oneHourAgo, closest, lo)
    ELSE LET mid == (lo + hi) \div 2
             first == ScanEntries(entries, oneHourAgo, lo, mid, closest)
         IN  IF first = 0      \* the test only forces first before the second half
               THEN ScanEntries(entries, oneHourAgo, mid + 1, hi, 0)
               ELSE ScanEntries(entries, oneHourAgo, mid + 1, hi, first)

\* `history && history.proposalPubkey === data.proposalPubkey` (tracker.ts:90)
SameProposal(h, data) == ~Falsy(h) /\ h.proposalPubkey = data.proposalPubkey

\* variation / Math.abs(previousHour) * 100, kept as the exact fraction
\* num / den; null when previousHour is 0 (tracker.ts:109-110)
NullFraction == [null |-> TRUE, num |-> 0, den |-> 1]

VariationPercentSigned(variation, previousHour) ==
    IF previousHour # 0
      THEN [null |-> FALSE, num |-> variation * 100, den |-> previousHour]
      ELSE NullFraction

VariationPercent(variation, previousHour) ==
    IF previousHour # 0
      THEN [null |-> FALSE, num |-> variation * 100, den |-> Abs(previousHour)]
      ELSE NullFraction

NoReport ==
    [current |-> 0, previousHour |-> NullNumber, variation |-> NullNumber,
     variationPercent |-> NullFraction, passPrice |-> 0, failPrice |-> 0,
     timestamp |-> 0, status |-> "", isFinalized |-> FALSE]

\* tracker.ts:80: the instant the previous-hour sample is looked for
SameInstant(ts) == ts

OneHourAgo(ts) == ts - OneHour

\* getThresholdReport (tracker.ts:78-125) on file f: whether it raises, the
\* index of closestEntry (0: null) and the report.  `for (const entry of
\* history.entries)` raises a TypeError when entries is undefined; over a
\* string it visits characters, whose timestamp is undefined and whose diff is
\* NaN, so none is selected.
GetThresholdReportOn(f, data) ==
    LET history == LoadHistory(f)
        oneHourAgo == OneHourAgo(data.timestamp)
        searched == SameProposal(history, data)
        closest ==
            IF searched /\ history.entriesKind = "array"
              THEN ScanEntries(history.entries, oneHourAgo, 1, Len(history.entries), 0)
              ELSE 0
        previousHour == IF closest # 0 THEN history.entries[closest].threshold ELSE 0
        variation == data.threshold - previousHour
    IN  IF searched /\ history.entriesKind = "absent"
          THEN [raised |-> TRUE, closest |-> 0, report |-> NoReport]
          ELSE [raised |-> FALSE, closest |-> closest,
                report |->
                  [current |-> data.threshold,
                   previousHour |-> IF closest # 0 THEN Number(previousHour) ELSE NullNumber,
                   variation |-> IF closest # 0 THEN Number(variation) ELSE NullNumber,
                   variationPercent |->
                       IF closest # 0 THEN VariationPercent(variation, previousHour)
                       ELSE NullFraction,
                   passPrice |-> data.passPrice, failPrice |-> data.failPrice,
                   timestamp |-> data.timestamp, status |-> data.status,
                   isFinalized |-> IsFinalized(data.status)]]

(***************************************************************************)
(* The strategies that run in steps: their variables before they start     *)
(***************************************************************************)

\* What a pool lookup of Promise.all holds while it has not settled
Unsettled == [kind |-> "unsettled", data |-> <<>>]

\* fetchFromSolanaRpc has not been called
RpcNotStarted ==
    [pc |-> "idle", lookups |-> <<>>, proposal |-> ParsedNull,
     question |-> ParsedNull, pending |-> {},
     settled |-> [p \in {"pass", "fail"} |-> Unsettled], landed |-> <<>>,
     decodes |-> <<>>, ret |-> Pending]

\* An RPC node that holds no account
NoChain ==
    [accounts |-> {},
     made |-> [proposal |-> "", question |-> "", pass |-> "", fail |-> ""]]

\* No division is under way
NoDivision ==
    [n |-> <<>>, d |-> <<>>, i |-> 1, q |-> <<>>, rem |-> <<>>,
     neg |-> FALSE, exp |-> 0]

\* No pool account has been priced
NotPriced ==
    [pc |-> "idle", pass |-> <<>>, fail |-> <<>>, decoded |-> FALSE,
     passReserves |-> ParsedNull, failReserves |-> ParsedNull,
     passPrice |-> Pending, failPrice |-> Pending, div |-> NoDivision,
     ret |-> Pending]

ChainIdle ==
    /\ chain = NoChain
    /\ rpc = RpcNotStarted
    /\ pools = NotPriced

\* No embedded data blob
NoBlob ==
    [kind |-> "none", threshold |-> NullNumber, pass_price |-> NullNumber,
     fail_price |-> NullNumber, details |-> NullNumber]

NoPage ==
    [blob |-> NoBlob, tokens |-> <<>>, scriptThreshold |-> NullNumber,
     passPrice |-> NullNumber, failPrice |-> NullNumber]

\* fetchFromWebpage has not been called
WebNotStarted ==
    [pc |-> "idle", timerSet |-> 0, requests |-> 0, requestedAt |-> 0,
     status |-> "none", ret |-> Pending]

\* The rendered-page extraction has not run
NotExtracted ==
    [found |-> NullNumber, calculated |-> NullNumber, ret |-> Pending]

\* The site has shown no page
NoSite == [title |-> "none", url |-> "none"]

\* fetchFromWebpageWithPuppeteer has not been called
BrowserNotStarted ==
    [pc |-> "idle", launched |-> FALSE, closeCalled |-> FALSE,
     closed |-> FALSE, site |-> NoSite, detected |-> FALSE, timerSet |-> 0,
     waited |-> 0, currentTitle |-> "none", extracted |-> FALSE,
     body |-> Pending, ret |-> Pending]

PageIdle ==
    /\ page = NoPage
    /\ web = WebNotStarted
    /\ rendered = NotExtracted
    /\ browser = BrowserNotStarted

(***************************************************************************)
(* The tracker's operations as actions                                     *)
(***************************************************************************)

\* Bounds of the model
MaxAppends == 2

MaxHist == 4

MaxRun == 170

\* (passPrice, failPrice, threshold) of a snapshot: price-derived, and read
\* off a page with no prices
Quotes == {<<12, 10, 20>>, <<0, 0, -3>>}

SnapshotsAt(ts, statuses) ==
    {ProposalData(pk, q[1], q[2], q[3], st, ts) :
        pk \in Pubkeys, q \in Quotes, st \in statuses}

NoOp ==
    [op |-> "none", data |-> Null, pre |-> MissingFile, write |-> "none",
     raised |-> FALSE, closest |-> 0, report |-> NoReport,
     sent |-> "none", returned |-> FALSE]

\* recordThreshold(data) runs to its end or to its TypeError; w is how the
\* write ends if it is reached
RecordThresholdCall(data, w) ==
    LET out == RecordThresholdOn(file, data, w)
    IN  /\ file' = out.file
        /\ now' = data.timestamp
        /\ last' = [op |-> "record", data |-> data, pre |-> file,
                    write |-> IF out.raised THEN "none" ELSE w,
                    raised |-> out.raised, closest |-> 0, report |-> NoReport,
                    sent |-> "none", returned |-> FALSE]
        /\ appended' = Append(appended, data)
        /\ persistOk' = (persistOk /\ ~out.raised /\ w = "ok")
        /\ UNCHANGED <<fetchVars, raceVars, decoderVars, chainVars, pageVars>>

\* A cycle an hour after the last one appends its snapshot
RecordThreshold ==
    /\ Len(appended) < MaxAppends
    /\ \E data \in SnapshotsAt(now + OneHour, {"active"}), w \in WriteOutcomes :
         RecordThresholdCall(data, w)

\* The hourly cycle of one proposal whose writes succeed; the threshold moves
\* with the hour
AppendHourly ==
    /\ Len(appended) < MaxRun
    /\ RecordThresholdCall(
          ProposalData(ConfigPubkey, 0, 0, (Len(appended) % 5) - 2, "active",
                       now + OneHour),
          "ok")

\* getThresholdReport(data) for a snapshot captured now
GetThresholdReportSaving(statuses) ==
    \E data \in SnapshotsAt(now, statuses) :
       LET out == GetThresholdReportOn(file, data)
       IN  /\ last' = [op |-> "report", data |-> data, pre |-> file,
                       write |-> "none", raised |-> out.raised,
                       closest |-> out.closest, report |-> out.report,
                       sent |-> "none", returned |-> FALSE]
           /\ file' = IF out.raised THEN file
                      ELSE SaveHistory(file, StartOrContinue(LoadHistory(file), data), "ok")
           /\ UNCHANGED <<now, appended, persistOk>>
           /\ UNCHANGED <<fetchVars, raceVars, decoderVars, chainVars, pageVars>>

GetThresholdReport(statuses) ==
    \E data \in SnapshotsAt(now, statuses) :
       LET out == GetThresholdReportOn(file, data)
       IN  /\ last' = [op |-> "report", data |-> data, pre |-> file,
                       write |-> "none", raised |-> out.raised,
                       closest |-> out.closest, report |-> out.report,
                       sent |-> "none", returned |-> FALSE]
           /\ UNCHANGED <<file, now, appended, persistOk>>
           /\ UNCHANGED <<fetchVars, raceVars, decoderVars, chainVars, pageVars>>

ReportAfterAppend == GetThresholdReport({"active"})

ReportStatuses ==
    {"active", "pending", "unknown", "Passed", "PASSED", "failed", "Executed"}

\* One report per file: getThresholdReport only reads, so a second call on the
\* same file finds what the first one found
BuildReport ==
    /\ last = NoOp
    /\ GetThresholdReport(ReportStatuses)

\* The fetch cascade's variables while only the tracker runs
FetchIdle ==
    /\ isWorkers = FALSE
    /\ pc = "done" /\ idx = 1 /\ endpoint = 0 /\ inflight = {}
    /\ calls = [s \in {"graphql", "puppeteer", "webpage", "rpc", "market"} |-> 0]
    /\ env = [s \in {"graphql", "puppeteer", "webpage", "rpc", "market"} |-> "none"]
    /\ result = [s \in {"graphql", "puppeteer", "webpage", "rpc", "market"} |-> NotRun]
    /\ ret = Pending
    /\ reply = NoReply

\* n entries an hour apart, the last one captured at instant 0
HourlyEntries(n) ==
    [i \in 1..n |->
        [timestamp |-> ToISOString(0 - (n - i) * OneHour),
         threshold |-> (i % 3) - 1, passPrice |-> 0, failPrice |-> 0]]

\* JSON values that parse but are no ThresholdHistory
MalformedFiles ==
    {FileOf("object", pk, ek, <<>>) :
        pk \in Pubkeys \cup {"undefined"}, ek \in {"absent", "string"}}
    \cup {FalsyFile, FileOf("object", "undefined", "array", <<>>)}

CorruptFiles == {UnreadableFile, UnparseableFile} \cup MalformedFiles

InitLengths == {0, 1, HistoryCap - 1, HistoryCap}

TrackerFiles ==
    {MissingFile} \cup CorruptFiles
    \cup {ThresholdHistory(pk, HourlyEntries(n)) : pk \in Pubkeys, n \in InitLengths}

InitTracker ==
    /\ FetchIdle
    /\ RaceIdle
    /\ DecoderIdle
    /\ ChainIdle
    /\ PageIdle
    /\ file \in TrackerFiles
    /\ now = 0
    /\ last = NoOp
    /\ appended = <<>>
    /\ persistOk = TRUE

NextTracker ==
    \/ RecordThreshold
    \/ ReportAfterAppend

SpecTracker == InitTracker /\ [][NextTracker]_vars

\* Capture instants of history entries, in minutes before the report's snapshot
OffsetMinutes == {75, 70, 65, 62, 58, 50, 5}

\* The threshold recorded at each of them, and a second reading at minute 58
ThresholdAt(m) ==
    CASE m = 75 -> 4 [] m = 70 -> 3 [] m = 65 -> -2 [] m = 62 -> 1
      [] m = 58 -> 0 [] m = 50 -> -1 [] m = 5 -> 2

EntryAt(m, t) ==
    [timestamp |-> ToISOString(0 - m * Minute), threshold |-> t,
     passPrice |-> 0, failPrice |-> 0]

EntrySamples == {EntryAt(m, ThresholdAt(m)) : m \in OffsetMinutes} \cup {EntryAt(58, 7)}

\* Insertion order is time order: each entry was captured no earlier than the
\* one before it
TimeOrdered(entries) ==
    \A i \in 1..(Len(entries) - 1) :
       DateParse(entries[i].timestamp) <= DateParse(entries[i + 1].timestamp)

ShortHistories ==
    {e \in UNION {[1..n -> EntrySamples] : n \in 0..MaxHist} : TimeOrdered(e)}

ReportFiles ==
    {MissingFile} \cup CorruptFiles
    \cup {ThresholdHistory(pk, e) : pk \in Pubkeys, e \in ShortHistories}

InitReport ==
    /\ FetchIdle
    /\ RaceIdle
    /\ DecoderIdle
    /\ ChainIdle
    /\ PageIdle
    /\ file \in ReportFiles
    /\ now = 0
    /\ last = NoOp
    /\ appended = <<>>
    /\ persistOk = TRUE

NextReport == BuildReport

SpecReport == InitReport /\ [][NextReport]_vars

InitRotation ==
    /\ FetchIdle
    /\ RaceIdle
    /\ DecoderIdle
    /\ ChainIdle
    /\ PageIdle
    /\ file \in {MissingFile, UnparseableFile, FalsyFile}
    /\ now = 0
    /\ last = NoOp
    /\ appended = <<>>
    /\ persistOk = TRUE

NextRotation == AppendHourly

SpecRotation == InitRotation /\ [][NextRotation]_vars

(***************************************************************************)
(* fetchProposalData (metadao.ts:874-912)                                  *)
(***************************************************************************)

\* The order of the awaits in fetchProposalData: 881, 888, 896, 902, 908
OrderSwapped == <<"graphql", "webpage", "puppeteer", "rpc", "market">>

Order == <<"graphql", "puppeteer", "webpage", "rpc", "market">>

Strategies == {Order[i] : i \in 1..Len(Order)}

\* `if (data) return data;` follows every await but the last: the result of
\* fetchFromMarketApi is discarded (908)
ReturnsDataNever(s, r) == FALSE

ReturnsData(s, r) == s # "market" /\ Truthy(r)

\* What fetchProposalData returns after the last strategy (910-911)
ExhaustedThrows == Thrown

Exhausted == Null

\* `if (!isWorkers)` guards the rendered-page strategy only (887)
SkippedNever(s) == FALSE

Skipped(s) == s = "puppeteer" /\ isWorkers

\* fetchProposalData is entered: nothing invoked yet
FetchEntry ==
    /\ pc = "call" /\ idx = 1 /\ endpoint = 0 /\ inflight = {}
    /\ calls = [s \in Strategies |-> 0]
    /\ env = [s \in Strategies |-> "none"]
    /\ result = [s \in Strategies |-> NotRun]
    /\ ret = Pending
    /\ reply = NoReply

\* The orchestrator reaches the call of Order[idx] and the runtime cannot host
\* a browser: the call is passed over (887)
SkipStrategy ==
    /\ pc = "call"
    /\ Skipped(Order[idx])
    /\ idx' = idx + 1
    /\ UNCHANGED <<isWorkers, pc, endpoint, inflight, calls, env, result, ret,
                   reply>>
    /\ UNCHANGED <<trackerVars, raceVars, decoderVars, chainVars, pageVars>>

\* The orchestrator invokes Order[idx] and awaits it
InvokeStrategy ==
    /\ pc = "call"
    /\ ~Skipped(Order[idx])
    /\ pc' = "await"
    /\ inflight' = inflight \cup {Order[idx]}
    /\ calls' = [calls EXCEPT ![Order[idx]] = @ + 1]
    /\ endpoint' = IF Order[idx] = "graphql" THEN 1 ELSE endpoint
    /\ UNCHANGED <<isWorkers, idx, env, result, ret, reply>>
    /\ UNCHANGED <<trackerVars, raceVars, decoderVars, chainVars, pageVars>>

\* The awaited strategy s settles with r (a rejection when r is Thrown) having
\* seen o, and fetchProposalData runs on to its next await or to its return
Settle(s, o, r) ==
    /\ env' = [env EXCEPT ![s] = o]
    /\ result' = [result EXCEPT ![s] = r]
    /\ inflight' = inflight \ {s}
    /\ IF r.kind = "throw"
         THEN pc' = "done" /\ ret' = Thrown /\ idx' = idx   \* no try in 874-912
         ELSE IF ReturnsData(s, r)
                THEN pc' = "done" /\ ret' = r /\ idx' = idx
                ELSE IF idx < Len(Order)
                       THEN pc' = "call" /\ idx' = idx + 1 /\ ret' = ret
                       ELSE pc' = "done" /\ ret' = Exhausted /\ idx' = idx
    /\ UNCHANGED <<isWorkers, calls>>
    /\ UNCHANGED <<trackerVars, raceVars, decoderVars, chainVars, pageVars>>

\* fetchFromGraphQL queries the next endpoint (metadao.ts:69-115)
GraphQLStep ==
    /\ pc = "await" /\ Order[idx] = "graphql"
    /\ \E r \in GraphQLResponses :
         LET out == GraphQLEndpoint(r, now)
         IN  IF out.kind = "continue" /\ endpoint < Len(GRAPHQL_ENDPOINTS)
               THEN /\ endpoint' = endpoint + 1
                    /\ env' = [env EXCEPT !["graphql"] = r.kind]
                    /\ reply' = r
                    /\ UNCHANGED <<isWorkers, pc, idx, inflight, calls, result, ret>>
                    /\ UNCHANGED <<trackerVars, raceVars, decoderVars, chainVars, pageVars>>
               ELSE /\ endpoint' = endpoint
                    /\ reply' = r
                    /\ Settle("graphql", r.kind,
                              IF out.kind = "continue" THEN Null ELSE out)

PuppeteerRun ==
    /\ pc = "await" /\ Order[idx] = "puppeteer"
    /\ \E o \in PuppeteerFailures \cup PuppeteerSuccesses, thr \in PageThresholds :
         Settle("puppeteer", o, FetchFromWebpageWithPuppeteer(o, thr, now))
    /\ UNCHANGED <<endpoint, reply>>

WebpageRun ==
    /\ pc = "await" /\ Order[idx] = "webpage"
    /\ \E o \in WebpageFailures \cup {"threshold_found"}, thr \in PageThresholds :
         Settle("webpage", o, FetchFromWebpage(o, thr, now))
    /\ UNCHANGED <<endpoint, reply>>

RpcRun ==
    /\ pc = "await" /\ Order[idx] = "rpc"
    /\ \E o \in RpcFailures \cup {"ok"}, prices \in RpcPrices :
         Settle("rpc", o, FetchFromSolanaRpc(o, prices, now))
    /\ UNCHANGED <<endpoint, reply>>

MarketRun ==
    /\ pc = "await" /\ Order[idx] = "market"
    /\ \E o \in MarketOutcomes :
         Settle("market", o, FetchFromMarketApi(o))
    /\ UNCHANGED <<endpoint, reply>>

\* The scheduler starts the next cycle: fetchProposalData is called again
NewCycle ==
    /\ pc = "done"
    /\ pc' = "call" /\ idx' = 1 /\ endpoint' = 0 /\ inflight' = {}
    /\ calls' = [s \in Strategies |-> 0]
    /\ env' = [s \in Strategies |-> "none"]
    /\ result' = [s \in Strategies |-> NotRun]
    /\ ret' = Pending
    /\ reply' = NoReply
    /\ UNCHANGED isWorkers
    /\ UNCHANGED <<trackerVars, raceVars, decoderVars, chainVars, pageVars>>

\* The tracker's variables while only the fetch cascade runs
TrackerIdle ==
    /\ file = MissingFile
    /\ now = 0
    /\ last = NoOp
    /\ appended = <<>>
    /\ persistOk = TRUE

Init ==
    /\ isWorkers \in BOOLEAN
    /\ FetchEntry
    /\ TrackerIdle
    /\ RaceIdle
    /\ DecoderIdle
    /\ ChainIdle
    /\ PageIdle

Next ==
    \/ SkipStrategy
    \/ InvokeStrategy
    \/ GraphQLStep
    \/ PuppeteerRun
    \/ WebpageRun
    \/ RpcRun
    \/ MarketRun
    \/ NewCycle

Spec == Init /\ [][Next]_vars

(***************************************************************************)
(* sendThresholdUpdate (telegram.ts:56-136): one update cycle              *)
(***************************************************************************)

\* Bound of the model: the cycles that append, and the hours the clock runs
MaxCycles == 2

\* Bound of the model: the minutes the clock runs while two calls overlap
MaxOverlap == 1

\* The time that passed since the snapshot of the cycle before was stamped
ClockSteps == {0, OneHour}

\* The snapshots fetchProposalData hands back, stamped `new Date()` at ts
CycleSnapshots(ts) == {ProposalData(pk, 12, 10, 20, "active", ts) : pk \in Pubkeys}

\* What fetchProposalData resolves to: a snapshot or null
CycleFetches(ts) == CycleSnapshots(ts) \cup {Null}

\* telegram.ts:93, config.ts:157: `if (!data)`
NoDataNever(data) == FALSE

NoData(data) == ~Truthy(data)

\* telegram.ts:109-112 and 113-135, config.ts:173-183: true is returned once
\* the report message went out, false when anything before it raised or the
\* message was not accepted
ReturnedAlways(raised, d) == TRUE

Returned(raised, d) == ~raised /\ d = "delivered"

\* telegram.ts:63-66 and 84-87
Preconditions == {"ready", "no_chat_id", "no_bot"}

\* bot.sendMessage resolves or rejects
DeliveryOutcomes == {"delivered", "rejected"}

\* One call of sendThresholdUpdate, from entry to return: the fetch, then
\* recordThreshold, getThresholdReport and the delivery, all inside the try
\* whose catch returns false
SendThresholdUpdate ==
    /\ now < MaxCycles * OneHour
    /\ \E dt \in ClockSteps :
         /\ now' = now + dt
         /\ \/ \E c \in Preconditions \ {"ready"} :      \* 63-66, 84-87
                 /\ last' = [NoOp EXCEPT !.op = "update", !.pre = file]
                 /\ UNCHANGED <<file, appended, persistOk>>
            \/ \E data \in CycleFetches(now + dt), w \in WriteOutcomes,
                   d \in DeliveryOutcomes :
                 IF NoData(data)                           \* 93-100
                   THEN
                     /\ last' = [NoOp EXCEPT !.op = "update", !.pre = file,
                                    !.sent = IF d = "delivered" THEN "notice" ELSE "none"]
                     /\ UNCHANGED <<file, appended, persistOk>>
                   ELSE                                    \* 102-112
                 LET rec == RecordThresholdOn(file, data, w)
                     rep == GetThresholdReportOn(rec.file, data)
                     raised == rec.raised \/ rep.raised
                     delivered == ~raised /\ d = "delivered"
                 IN  /\ Len(appended) < MaxCycles
                     /\ file' = rec.file
                     /\ appended' = Append(appended, data)
                     /\ persistOk' = (persistOk /\ ~rec.raised /\ w = "ok")
                     /\ last' = [op |-> "update", data |-> data, pre |-> file,
                                 write |-> IF rec.raised THEN "none" ELSE w,
                                 raised |-> raised,
                                 closest |-> IF raised THEN 0 ELSE rep.closest,
                                 report |-> IF raised THEN NoReport ELSE rep.report,
                                 sent |-> IF delivered THEN "report" ELSE "none",
                                 returned |-> Returned(raised, d)]
    /\ UNCHANGED <<fetchVars, raceVars, decoderVars, chainVars, pageVars>>

\* The file a first cycle can find: none, a corrupt one, or a history written
\* by earlier cycles, the last of them at instant 0
CycleFiles ==
    {MissingFile} \cup CorruptFiles
    \cup {ThresholdHistory(pk, HourlyEntries(n)) : pk \in Pubkeys, n \in {0, 2}}
    \cup {ThresholdHistory(ConfigPubkey, HourlyEntries(HistoryCap))}

InitCycles ==
    /\ FetchIdle
    /\ RaceIdle
    /\ DecoderIdle
    /\ ChainIdle
    /\ PageIdle
    /\ file \in CycleFiles
    /\ now = 0
    /\ last = NoOp
    /\ appended = <<>>
    /\ persistOk = TRUE

NextCycles == SendThresholdUpdate

SpecCycles == InitCycles /\ [][NextCycles]_vars

(***************************************************************************)
(* recordThreshold by two scheduler instances on one file                  *)
(* (tracker.ts:51-76): each loads, builds its history in memory and saves, *)
(* and the steps of the two interleave                                     *)
(***************************************************************************)

\* The snapshot instance i appends: both of the same hour, told apart by
\* their threshold
RaceSnapshots(i) == {ProposalData(pk, 0, 0, i, "active", OneHour) : pk \in Pubkeys}

\* The history saveHistory is called with (tracker.ts:75): the one built from
\* what this call loaded, whatever the file holds by now
ReloadedHistory(held, f, data) ==
    PushEntry(StartOrContinue(LoadHistory(f), data), data)

HeldHistory(held, f, data) == held

\* Instance i runs recordThreshold up to the call of saveHistory
\* (tracker.ts:52-73)
RaceLoad(i) ==
    /\ sched[i].pc = "start"
    /\ \E data \in RaceSnapshots(i) :
         LET history == StartOrContinue(LoadHistory(file), data)
         IN  sched' = [sched EXCEPT ![i] =
                 IF history.entriesKind # "array"
                   THEN [@ EXCEPT !.pc = "raised", !.data = data, !.pre = file]
                   ELSE [@ EXCEPT !.pc = "loaded", !.data = data, !.pre = file,
                                  !.history = PushEntry(history, data)]]
    /\ UNCHANGED cycles
    /\ UNCHANGED <<fetchVars, trackerVars, decoderVars, chainVars, pageVars>>

\* Instance i runs saveHistory (tracker.ts:75, 43-49)
RacePersist(i) ==
    /\ sched[i].pc = "loaded"
    /\ \E w \in WriteOutcomes :
         /\ file' = SaveHistory(file,
                       HeldHistory(sched[i].history, file, sched[i].data), w)
         /\ sched' = [sched EXCEPT ![i] =
                 [@ EXCEPT !.pc = "done", !.write = w,
                    !.turn = 1 + Cardinality({j \in Instances : sched[j].pc = "done"})]]
    /\ UNCHANGED <<now, last, appended, persistOk, cycles>>
    /\ UNCHANGED <<fetchVars, decoderVars, chainVars, pageVars>>

RaceFiles ==
    {MissingFile, UnparseableFile, FileOf("object", ConfigPubkey, "absent", <<>>)}
    \cup {ThresholdHistory(pk, HourlyEntries(n)) :
             pk \in Pubkeys, n \in {0, 1, HistoryCap}}

InitRace ==
    /\ FetchIdle
    /\ DecoderIdle
    /\ ChainIdle
    /\ PageIdle
    /\ RaceIdle
    /\ file \in RaceFiles
    /\ now = 0
    /\ last = NoOp
    /\ appended = <<>>
    /\ persistOk = TRUE

NextRace == \E i \in Instances : RaceLoad(i) \/ RacePersist(i)

SpecRace == InitRace /\ [][NextRace]_vars

(***************************************************************************)
(* sendThresholdUpdate called twice in one process (telegram.ts:39-42 and  *)
(* 56-136): the /status command arrives while the scheduled update is      *)
(* under way.  The runtime runs one call at a time and changes over only   *)
(* at an await: of fetchProposalData (91) and of sendMessage (94, 109).    *)
(***************************************************************************)

\* The snapshot call i fetches, stamped at ts: the two are told apart by
\* their threshold
OverlapSnapshots(i, ts) ==
    {ProposalData(pk, 0, 0, i, "active", ts) : pk \in Pubkeys} \cup {Null}

\* The history recordThreshold works on (tracker.ts:52): the file as it is
\* when recordThreshold runs, not as it was when the call was entered
LoadedOnEntry(f, entered) == entered

LoadedNow(f, entered) == f

\* telegram.ts:61-91: the call is entered and awaits fetchProposalData
CycleStart(i) ==
    /\ cycles[i].pc = "idle"
    /\ \E c \in Preconditions :
         cycles' = [cycles EXCEPT ![i] =
            IF c = "ready" THEN [@ EXCEPT !.pc = "fetching", !.entered = file]
            ELSE [@ EXCEPT !.pc = "done", !.entered = file]]       \* 63-66, 84-87
    /\ UNCHANGED sched
    /\ UNCHANGED <<fetchVars, trackerVars, decoderVars, chainVars, pageVars>>

\* telegram.ts:91-109: the fetch has settled; the call runs on, through
\* recordThreshold and getThresholdReport, to its next await
CycleFetched(i) ==
    /\ cycles[i].pc = "fetching"
    /\ \E data \in OverlapSnapshots(i, now), w \in WriteOutcomes :
         IF NoData(data)
           THEN /\ cycles' = [cycles EXCEPT ![i] = [@ EXCEPT !.pc = "noticing"]]
                /\ UNCHANGED <<file, appended, persistOk>>
           ELSE LET f == LoadedNow(file, cycles[i].entered)
                    rec == RecordThresholdOn(f, data, w)
                    rep == GetThresholdReportOn(rec.file, data)
                    raised == rec.raised \/ rep.raised
                IN  /\ file' = rec.file
                    /\ appended' = Append(appended, data)
                    /\ persistOk' = (persistOk /\ ~rec.raised /\ w = "ok")
                    /\ cycles' = [cycles EXCEPT ![i] =
                          [@ EXCEPT !.pc = IF raised THEN "done" ELSE "delivering",
                                    !.data = data, !.raised = raised,
                                    !.write = IF rec.raised THEN "none" ELSE w]]
    /\ UNCHANGED <<now, last, sched>>
    /\ UNCHANGED <<fetchVars, decoderVars, chainVars, pageVars>>

\* telegram.ts:94-99 and 109-135: sendMessage has settled and the call returns
CycleDelivered(i) ==
    /\ cycles[i].pc \in {"noticing", "delivering"}
    /\ \E d \in DeliveryOutcomes :
         cycles' = [cycles EXCEPT ![i] =
            IF cycles[i].pc = "noticing"
              THEN [@ EXCEPT !.pc = "done",
                             !.sent = IF d = "delivered" THEN "notice" ELSE "none"]
              ELSE [@ EXCEPT !.pc = "done",
                             !.sent = IF d = "delivered" THEN "report" ELSE "none",
                             !.returned = Returned(FALSE, d)]]
    /\ UNCHANGED sched
    /\ UNCHANGED <<fetchVars, trackerVars, decoderVars, chainVars, pageVars>>

\* A minute passes while a call is under way
OverlapTick ==
    /\ \E i \in Instances : cycles[i].pc \notin {"idle", "done"}
    /\ now < MaxOverlap * Minute
    /\ now' = now + Minute
    /\ UNCHANGED <<file, last, appended, persistOk>>
    /\ UNCHANGED <<fetchVars, raceVars, decoderVars, chainVars, pageVars>>

\* The file the process starts with: none, or a history written an hour
\* before
OverlapFiles ==
    {MissingFile}
    \cup {ThresholdHistory(pk, HourlyEntries(1)) : pk \in Pubkeys}

InitOverlap ==
    /\ FetchIdle
    /\ RaceIdle
    /\ DecoderIdle
    /\ ChainIdle
    /\ PageIdle
    /\ file \in OverlapFiles
    /\ now = 0
    /\ last = NoOp
    /\ appended = <<>>
    /\ persistOk = TRUE

NextOverlap ==
    \/ \E i \in Instances : CycleStart(i) \/ CycleFetched(i) \/ CycleDelivered(i)
    \/ OverlapTick

SpecOverlap == InitOverlap /\ [][NextOverlap]_vars

(***************************************************************************)
(* The decoders on account data (metadao.ts:313, 326, 346-347)             *)
(***************************************************************************)

\* The n little-endian bytes of v >= 0
RECURSIVE BytesLE(_, _)
BytesLE(v, n) == IF n = 0 THEN <<>> ELSE <<v % 256>> \o BytesLE(v \div 256, n - 1)

\* The 8 bytes of a signed 64-bit value in two's complement
Int64LE(v) ==
    IF v >= 0 THEN BytesLE(v, 8)
    ELSE LET c == BytesLE(0 - v - 1, 8) IN [i \in 1..8 |-> 255 - c[i]]

\* The 32 bytes of an address: they differ from one position to the next and
\* from one address to another
Address(seed) == [i \in 1..32 |-> (seed + i) % 256]

Zeros(n) == [i \in 1..n |-> 0]

\* Field values of a proposal account; seed picks its eleven addresses
ProposalFields ==
    [number : {0, 66051}, timestampEnqueued : {-2, 1700000000}, state : {0, 3},
     pdaBump : {255}, durationInSeconds : {3600}, isTeamSponsored : BOOLEAN,
     seed : {1, 200}]

\* The account data of a proposal as the program lays it out
\* (metadao.ts:142-159)
EncodeProposal(f) ==
    <<1, 2, 3, 4, 5, 6, 7, 8>>                       \* discriminator
    \o BytesLE(f.number, 4)
    \o Address(f.seed)                               \* proposer
    \o Int64LE(f.timestampEnqueued)
    \o <<f.state>>
    \o Address(f.seed + 40)                          \* base_vault
    \o Address(f.seed + 80)                          \* quote_vault
    \o Address(f.seed + 120)                         \* dao
    \o <<f.pdaBump>>
    \o Address(f.seed + 160)                         \* question
    \o BytesLE(f.durationInSeconds, 4)
    \o Address(f.seed + 200)                         \* squads_proposal
    \o Address(f.seed + 240)                         \* pass_base_mint
    \o Address(f.seed + 280)                         \* pass_quote_mint
    \o Address(f.seed + 320)                         \* fail_base_mint
    \o Address(f.seed + 360)                         \* fail_quote_mint
    \o <<IF f.isTeamSponsored THEN 1 ELSE 0>>

\* bytes cut or zero-padded to n bytes
Resize(bytes, n) ==
    [i \in 1..n |-> IF i <= Len(bytes) THEN bytes[i] ELSE 0]

\* Lengths around the three minimum sizes
BufferLengths == {0, 63, 64, 99, 100, 292, 293, 346, 347, 348}

ProposalBuffers ==
    {Resize(EncodeProposal(f), n) : f \in ProposalFields, n \in BufferLengths}

\* Pool account data of n bytes, zero but for two reserves at offset
AmmBuffer(n, offset, base, quote) ==
    [i \in 1..n |->
        IF i > offset /\ i <= offset + 8 THEN BytesLE(base, 8)[i - offset]
        ELSE IF i > offset + 8 /\ i <= offset + 16 THEN BytesLE(quote, 8)[i - offset - 8]
        ELSE 0]

\* (baseReserves, quoteReserves): plausible, at the lower limit, and empty
ReserveSamples == {<<1000000, 1200000>>, <<1000, 1200000>>, <<0, 0>>}

AmmBuffers ==
    {AmmBuffer(n, n - 16, r[1], r[2]) : n \in {16, 99, 100, 184, 216, 300},
                                        r \in ReserveSamples}
    \cup {AmmBuffer(300, offset, r[1], r[2]) : offset \in {8 + 32 * 6, 8 + 32 * 5},
                                               r \in ReserveSamples}

\* u64 values as their eight little-endian bytes: 0, 1,000, 1,001, 1,000,000,
\* 1,200,000, 10^18 - 1, 10^18 and 10^19
U64 ==
    [zero      |-> <<0, 0, 0, 0, 0, 0, 0, 0>>,
     thousand  |-> <<232, 3, 0, 0, 0, 0, 0, 0>>,
     thousand1 |-> <<233, 3, 0, 0, 0, 0, 0, 0>>,
     million   |-> <<64, 66, 15, 0, 0, 0, 0, 0>>,
     million12 |-> <<128, 79, 18, 0, 0, 0, 0, 0>>,
     below18   |-> <<255, 255, 99, 167, 179, 182, 224, 13>>,
     tenTo18   |-> <<0, 0, 100, 167, 179, 182, 224, 13>>,
     tenTo19   |-> <<0, 0, 232, 137, 4, 35, 199, 138>>]

\* (baseReserves, quoteReserves) a candidate offset can hold: two plausible
\* pairs, and pairs with a value that is zero, at a limit or beyond it
PairSamples ==
    {<<"million", "million12">>, <<"thousand1", "below18">>, <<"zero", "zero">>,
     <<"thousand", "million12">>, <<"million", "tenTo18">>,
     <<"tenTo19", "million">>, <<"million", "zero">>}

\* data with bytes written at offset, as far as they fit
Overlay(data, offset, bytes) ==
    [i \in 1..Len(data) |->
        IF i > offset /\ i <= offset + Len(bytes) THEN bytes[i - offset]
        ELSE data[i]]

\* Pool account data of n bytes holding a pair at each candidate offset
PoolData(n, atFirst, atSecond, atLast) ==
    Overlay(Overlay(Overlay(Zeros(n), n - 16, U64[atLast[1]] \o U64[atLast[2]]),
                    8 + 32 * 5, U64[atSecond[1]] \o U64[atSecond[2]]),
            8 + 32 * 6, U64[atFirst[1]] \o U64[atFirst[2]])

\* Lengths at which the three candidates are apart, at which two of them
\* coincide, and at which only the last one lies inside the data
PoolLengths == {100, 184, 216, 300}

PoolBuffers ==
    {PoolData(n, atFirst, atSecond, atLast) :
        n \in PoolLengths, atFirst \in PairSamples, atSecond \in PairSamples,
        atLast \in PairSamples}

\* The account data is handed to the three decoders
Decode ==
    /\ parsed = NotParsed
    /\ parsed' = [proposal |-> ParseProposalAccount(buffer),
                  question |-> ParseQuestionAccount(buffer),
                  amm |-> ParseAmmAccount(buffer)]
    /\ UNCHANGED buffer
    /\ UNCHANGED <<fetchVars, trackerVars, raceVars, chainVars, pageVars>>

InitDecode ==
    /\ FetchIdle
    /\ TrackerIdle
    /\ RaceIdle
    /\ ChainIdle
    /\ PageIdle
    /\ buffer \in ProposalBuffers \cup AmmBuffers \cup PoolBuffers
    /\ parsed = NotParsed

NextDecode == Decode

SpecDecode == InitDecode /\ [][NextDecode]_vars

(***************************************************************************)
(* fetchFromSolanaRpc in steps (metadao.ts:302-378): one step up to each    *)
(* await, the two pool lookups of Promise.all settling in either order     *)
(***************************************************************************)

\* new PublicKey(config.proposal.pubkey) (metadao.ts:305)
ProposalAddress == PublicKey(Address(0))

\* The proposal account the samples share but for its state
ChainProposal(state) ==
    EncodeProposal([number |-> 7, timestampEnqueued |-> 1700000000,
                    state |-> state, pdaBump |-> 255,
                    durationInSeconds |-> 3600, isTeamSponsored |-> FALSE,
                    seed |-> 1])

\* What the node holds at the proposal's address, by label; the label
\* "absent" stands for no account
ProposalAccounts ==
    [rejects  |-> [kind |-> "rejects", data |-> <<>>],
     short    |-> [kind |-> "data", data |-> Resize(ChainProposal(0), 346)],
     pending  |-> [kind |-> "data", data |-> ChainProposal(0)],
     executed |-> [kind |-> "data", data |-> ChainProposal(3)],
     unlisted |-> [kind |-> "data", data |-> ChainProposal(9)]]

\* The question account: the addresses of the pass and the fail pool
QuestionAccounts ==
    [rejects |-> [kind |-> "rejects", data |-> <<>>],
     short   |-> [kind |-> "data", data |-> Resize(Address(50) \o Address(90), 63)],
     valid   |-> [kind |-> "data", data |-> Address(50) \o Address(90) \o Zeros(8)]]

\* A pool account: reserves 1,000,000 / 1,200,000 and 1,000,000 / 900,000,
\* no plausible reserves, and plausible reserves in data that is too short
PoolAccounts ==
    [rejects     |-> [kind |-> "rejects", data |-> <<>>],
     implausible |-> [kind |-> "data", data |-> Zeros(300)],
     short       |-> [kind |-> "data", data |-> AmmBuffer(99, 83, 1000000, 1200000)],
     r12         |-> [kind |-> "data",
                      data |-> AmmBuffer(300, 8 + 32 * 6, 1000000, 1200000)],
     r09         |-> [kind |-> "data",
                      data |-> AmmBuffer(300, 8 + 32 * 5, 1000000, 900000)]]

\* The accounts at one address: none when the label is "absent"
Held(address, accounts, label) ==
    IF label = "absent" THEN {}
    ELSE {[address |-> address, kind |-> accounts[label].kind,
           data |-> accounts[label].data]}

\* The node holding the four accounts the labels name
ChainOf(pr, qu, pa, fa) ==
    [accounts |->
        Held(ProposalAddress, ProposalAccounts, pr)
        \cup Held(PublicKey(Address(161)), QuestionAccounts, qu)
        \cup Held(PublicKey(Address(50)), PoolAccounts, pa)
        \cup Held(PublicKey(Address(90)), PoolAccounts, fa),
     made |-> [proposal |-> pr, question |-> qu, pass |-> pa, fail |-> fa]]

PoolLabels == {"absent", "rejects", "implausible", "short", "r12", "r09"}

\* The nodes of the model: a faulty proposal account, a faulty question
\* account, and every pair of pool accounts under three proposal states
Chains ==
    {ChainOf(pr, "valid", "r12", "r09") : pr \in {"absent", "rejects", "short"}}
    \cup {ChainOf(pr, qu, "r12", "r09") :
             pr \in {"pending", "executed"}, qu \in {"absent", "rejects", "short"}}
    \cup {ChainOf(pr, "valid", pa, fa) :
             pr \in {"pending", "executed", "unlisted"},
             pa \in PoolLabels, fa \in PoolLabels}

\* connection.getAccountInfo(address): the account, null, or a rejection
GetAccountInfo(address) ==
    LET held == {a \in chain.accounts : a.address = address}
    IN  IF held = {} THEN [kind |-> "absent", data |-> <<>>]
        ELSE LET a == CHOOSE h \in held : TRUE
             IN  [kind |-> a.kind, data |-> a.data]

\* metadao.ts:239-244 and 318: PROPOSAL_STATE[proposal.state] || "Unknown"
PROPOSAL_STATE == <<"Passed", "Failed", "Executed">>

StateStr(state) ==
    IF state = 0 THEN "Pending"
    ELSE IF state \in 1..Len(PROPOSAL_STATE) THEN PROPOSAL_STATE[state]
    ELSE "Unknown"

\* Number(bigint), for the reserves of the model (below 2^31)
NumberOfBig(w) == ((w[1] * 65536 + w[2]) * 65536 + w[3]) * 65536 + w[4]

RECURSIVE GCD(_, _)
GCD(a, b) == IF b = 0 THEN a ELSE GCD(b, a % b)

\* The number n / d (d # 0) in lowest terms, the denominator positive
Fraction(n, d) ==
    LET g == GCD(Abs(n), Abs(d))
        sign == IF d < 0 THEN -1 ELSE 1
    IN  [num |-> sign * (n \div g), den |-> sign * (d \div g)]

\* metadao.ts:354-355: Number(quoteReserves) / Number(baseReserves); the
\* decoder only returns reserves above 1,000, so the divisor is not 0
PriceInverted(reserves) ==
    Fraction(NumberOfBig(reserves.baseReserves), NumberOfBig(reserves.quoteReserves))

Price(reserves) ==
    Fraction(NumberOfBig(reserves.quoteReserves), NumberOfBig(reserves.baseReserves))

\* metadao.ts:358: ((passPrice - failPrice) / failPrice) * 100
FractionThreshold(passPrice, failPrice) ==
    Fraction((passPrice.num * failPrice.den - failPrice.num * passPrice.den) * 100,
             failPrice.num * passPrice.den)

\* fetchFromSolanaRpc returns r: its promise settles
RpcReturn(r) == [rpc EXCEPT !.pc = "done", !.ret = CatchReturnNull(r)]

\* metadao.ts:304-318: the proposal account is looked up and decoded
RpcLookupProposal ==
    /\ rpc.pc = "start"
    /\ LET info == GetAccountInfo(ProposalAddress)
           proposal == ParseProposalAccount(info.data)
           looked == [rpc EXCEPT !.lookups = Append(@, ProposalAddress)]
       IN  rpc' =
             IF info.kind = "rejects" THEN [RpcReturn(Thrown) EXCEPT !.lookups = looked.lookups]
             ELSE IF info.kind = "absent" THEN [RpcReturn(Null) EXCEPT !.lookups = looked.lookups]
             ELSE IF proposal = ParsedNull THEN [RpcReturn(Null) EXCEPT !.lookups = looked.lookups]
             ELSE [looked EXCEPT !.pc = "question", !.proposal = proposal]
    /\ UNCHANGED <<chain, pools>>
    /\ UNCHANGED <<fetchVars, trackerVars, raceVars, decoderVars, pageVars>>

\* metadao.ts:321-329: the question account is looked up and decoded
RpcLookupQuestion ==
    /\ rpc.pc = "question"
    /\ LET info == GetAccountInfo(rpc.proposal.question)
           question == ParseQuestionAccount(info.data)
           looked == [rpc EXCEPT !.lookups = Append(@, rpc.proposal.question)]
       IN  rpc' =
             IF info.kind = "rejects" THEN [RpcReturn(Thrown) EXCEPT !.lookups = looked.lookups]
             ELSE IF info.kind = "absent" THEN [RpcReturn(Null) EXCEPT !.lookups = looked.lookups]
             ELSE IF question = ParsedNull THEN [RpcReturn(Null) EXCEPT !.lookups = looked.lookups]
             ELSE [looked EXCEPT !.pc = "pools", !.question = question]
    /\ UNCHANGED <<chain, pools>>
    /\ UNCHANGED <<fetchVars, trackerVars, raceVars, decoderVars, pageVars>>

\* The address pool lookup p asks for
PoolAddress(p) == IF p = "pass" THEN rpc.question.passAmm ELSE rpc.question.failAmm

\* metadao.ts:332-335: the array handed to Promise.all is built, both
\* lookups are issued
RpcIssuePools ==
    /\ rpc.pc = "pools"
    /\ rpc' = [rpc EXCEPT !.pc = "join",
                          !.lookups = @ \o <<PoolAddress("pass"), PoolAddress("fail")>>,
                          !.pending = {"pass", "fail"}]
    /\ UNCHANGED <<chain, pools>>
    /\ UNCHANGED <<fetchVars, trackerVars, raceVars, decoderVars, pageVars>>

\* The node answers pool lookup p
RpcPoolSettles(p) ==
    /\ p \in rpc.pending
    /\ rpc' = [rpc EXCEPT !.pending = @ \ {p},
                          !.settled[p] = GetAccountInfo(PoolAddress(p)),
                          !.landed = Append(@, p)]
    /\ UNCHANGED <<chain, pools>>
    /\ UNCHANGED <<fetchVars, trackerVars, raceVars, decoderVars, pageVars>>

\* Promise.all fulfils once every lookup has settled
AnySettled(pending) == Cardinality(pending) <= 1

AllSettled(pending) == pending = {}

\* metadao.ts:338-343: both branches return null
PoolsAbsentReturn(state) == IF state # 0 THEN Null ELSE Null

\* metadao.ts:338-374: what follows the await of Promise.all
RpcAfterPools(passAmmInfo, failAmmInfo) ==
    LET passReserves == ParseAmmAccount(passAmmInfo.data)
        failReserves == ParseAmmAccount(failAmmInfo.data)
    IN  IF passAmmInfo.kind # "data" \/ failAmmInfo.kind # "data"
          THEN [decodes |-> <<>>, ret |-> PoolsAbsentReturn(rpc.proposal.state)]
        ELSE IF passReserves = ParsedNull \/ failReserves = ParsedNull
          THEN [decodes |-> <<"pass", "fail">>, ret |-> Null]
        ELSE LET passPrice == Price(passReserves)
                 failPrice == Price(failReserves)
             IN  [decodes |-> <<"pass", "fail">>,
                  ret |-> IF passPrice.num > 0 /\ failPrice.num > 0
                            THEN ProposalData(ConfigPubkey, passPrice, failPrice,
                                     FractionThreshold(passPrice, failPrice),
                                     ToLowerCase(StateStr(rpc.proposal.state)), now)
                            ELSE Null]

\* Promise.all settles: it rejects as soon as one lookup rejects (the catch
\* of 375-377 returns null), it fulfils when all have settled
RpcJoin ==
    /\ rpc.pc = "join"
    /\ IF \E p \in {"pass", "fail"} : rpc.settled[p].kind = "rejects"
         THEN rpc' = RpcReturn(Thrown)
         ELSE /\ AllSettled(rpc.pending)
              /\ LET after == RpcAfterPools(rpc.settled["pass"], rpc.settled["fail"])
                 IN  rpc' = [RpcReturn(after.ret) EXCEPT !.decodes = after.decodes]
    /\ UNCHANGED <<chain, pools>>
    /\ UNCHANGED <<fetchVars, trackerVars, raceVars, decoderVars, pageVars>>

InitRpc ==
    /\ FetchIdle
    /\ TrackerIdle
    /\ RaceIdle
    /\ DecoderIdle
    /\ PageIdle
    /\ chain \in Chains
    /\ rpc = [RpcNotStarted EXCEPT !.pc = "start"]
    /\ pools = NotPriced

NextRpc ==
    \/ RpcLookupProposal
    \/ RpcLookupQuestion
    \/ RpcIssuePools
    \/ \E p \in {"pass", "fail"} : RpcPoolSettles(p)
    \/ RpcJoin

SpecRpc == InitRpc /\ [][NextRpc]_vars

(***************************************************************************)
(* The prices of fetchFromSolanaRpc in double precision                    *)
(* (metadao.ts:346-374).  A double is sign, significand and exponent: the  *)
(* value (-1)^neg * bits * 2^exp, bits a natural number in binary, most    *)
(* significant bit first, of at most 53 bits, without leading or trailing  *)
(* zeros.  The values of the model lie between 2^-130 and 2^130, far from  *)
(* overflow and underflow.                                                 *)
(***************************************************************************)

\* The positions of a bit sequence that hold 1
OneBits(bits) == {k \in 1..Len(bits) : bits[k] = 1}

\* A natural number in binary, the most significant bit first, without
\* leading zeros
StripZeros(bits) ==
    LET ones == OneBits(bits)
    IN  IF ones = {} THEN <<>>
        ELSE SubSeq(bits, CHOOSE k \in ones : \A j \in ones : k <= j, Len(bits))

ZeroBits(n) == [i \in 1..n |-> 0]

PadTo(bits, n) == ZeroBits(n - Len(bits)) \o bits

\* a < b on natural numbers in binary
BitsLess(a, b) ==
    \/ Len(a) < Len(b)
    \/ /\ Len(a) = Len(b)
       /\ \E k \in 1..Len(a) : a[k] < b[k] /\ \A j \in 1..(k - 1) : a[j] = b[j]

\* a + b: a carry reaches bit i from the nearest lower bit where both are 1,
\* through bits where exactly one is 1
BitsAdd(a, b) ==
    LET n == IF Len(a) > Len(b) THEN Len(a) ELSE Len(b)
        x == PadTo(a, n)
        y == PadTo(b, n)
        carry(i) == \E j \in (i + 1)..n :
                        /\ x[j] + y[j] = 2
                        /\ \A k \in (i + 1)..(j - 1) : x[k] + y[k] = 1
    IN  StripZeros([i \in 1..(n + 1) |->
            IF i = 1 THEN (IF carry(0) THEN 1 ELSE 0)
            ELSE (x[i - 1] + y[i - 1] + (IF carry(i - 1) THEN 1 ELSE 0)) % 2])

\* a - b (a >= b): a borrow reaches bit i from the nearest lower bit where a
\* holds less than b, through bits where they are equal
BitsSub(a, b) ==
    LET n == Len(a)
        y == PadTo(b, n)
        borrow(i) == \E j \in (i + 1)..n :
                         /\ a[j] < y[j]
                         /\ \A k \in (i + 1)..(j - 1) : a[k] = y[k]
    IN  StripZeros([i \in 1..n |->
            (2 + a[i] - y[i] - (IF borrow(i) THEN 1 ELSE 0)) % 2])

DoubleZero == [neg |-> FALSE, bits |-> <<>>, exp |-> 0]

\* The number of zeros a bit sequence ends with
TrailingZeros(bits) ==
    LET ones == OneBits(bits)
    IN  IF ones = {} THEN Len(bits)
        ELSE Len(bits) - (CHOOSE k \in ones : \A j \in ones : k >= j)

Canonical(neg, bits, exp) ==
    LET b == StripZeros(bits)
        t == TrailingZeros(b)
    IN  IF b = <<>> THEN DoubleZero
        ELSE [neg |-> neg, bits |-> SubSeq(b, 1, Len(b) - t), exp |-> exp + t]

\* The width of the significand of a double
SignificandBits == 53

\* The double nearest to (-1)^neg * (bits + fraction) * 2^exp, where the
\* fraction is 0 or, when inexact holds, strictly between 0 and 1: round to
\* nearest, ties to even
RoundToDouble(neg, bits, exp, inexact) ==
    IF bits = <<>> THEN DoubleZero
    ELSE LET b == StripZeros(bits)
         IN  IF Len(b) <= SignificandBits THEN Canonical(neg, b, exp)
             ELSE LET keep == SubSeq(b, 1, SignificandBits)
                      rest == SubSeq(b, SignificandBits + 1, Len(b))
                      more == inexact \/ \E k \in 2..Len(rest) : rest[k] = 1
                      up == rest[1] = 1 /\ (more \/ keep[SignificandBits] = 1)
                  IN  Canonical(neg,
                                IF up THEN BitsAdd(keep, <<1>>) ELSE keep,
                                exp + Len(rest))

\* The n low bits of v, the most significant first
BitsOf(v, n) == [k \in 1..n |-> (v \div 2 ^ (n - k)) % 2]

\* Number(bigint) of a u64 (metadao.ts:354-355)
DoubleOfBig(w) ==
    RoundToDouble(FALSE,
        BitsOf(w[1], 16) \o BitsOf(w[2], 16) \o BitsOf(w[3], 16) \o BitsOf(w[4], 16),
        0, FALSE)

\* x / y for y # 0 by long division, a bit of the quotient a step: the
\* dividend n is x with zeros after it, so that the quotient has more than 53
\* bits, and the division starts at bit i, where the remainder can first
\* reach the divisor d
DivideStart(x, y) ==
    LET more == SignificandBits + 2 + Len(y.bits) - Len(x.bits)
        shift == IF more > 0 THEN more ELSE 0
        n == IF x.bits = <<>> THEN <<>> ELSE x.bits \o ZeroBits(shift)
        head == IF x.bits = <<>> THEN 0 ELSE Len(y.bits) - 1
    IN  [n |-> n, d |-> y.bits, i |-> head + 1, q |-> <<>>,
         rem |-> SubSeq(n, 1, head), neg |-> x.neg # y.neg,
         exp |-> x.exp - y.exp - shift]

Divided(v) == v.i > Len(v.n)

\* The next bit of the dividend is brought down to the remainder, and the
\* quotient gains a bit
DivideStep(v) ==
    LET r == StripZeros(Append(v.rem, v.n[v.i]))
        less == BitsLess(r, v.d)
    IN  [v EXCEPT !.i = @ + 1,
                  !.q = Append(@, IF less THEN 0 ELSE 1),
                  !.rem = IF less THEN r ELSE BitsSub(r, v.d)]

\* The double nearest to the quotient of a finished division
Quotient(v) == RoundToDouble(v.neg, v.q, v.exp, v.rem # <<>>)

\* x - y for x >= 0 and y >= 0
DoubleSub(x, y) ==
    LET e == IF x.exp < y.exp THEN x.exp ELSE y.exp
        a == IF x.bits = <<>> THEN <<>> ELSE x.bits \o ZeroBits(x.exp - e)
        b == IF y.bits = <<>> THEN <<>> ELSE y.bits \o ZeroBits(y.exp - e)
    IN  IF BitsLess(a, b) THEN RoundToDouble(TRUE, BitsSub(b, a), e, FALSE)
        ELSE RoundToDouble(FALSE, BitsSub(a, b), e, FALSE)

\* x * 100: 100 = 64 + 32 + 4
DoubleTimes100(x) ==
    IF x.bits = <<>> THEN DoubleZero
    ELSE RoundToDouble(x.neg,
             BitsAdd(BitsAdd(x.bits \o ZeroBits(6), x.bits \o ZeroBits(5)),
                     x.bits \o ZeroBits(2)),
             x.exp, FALSE)

\* metadao.ts:357: `price > 0`
NeverPositive(x) == FALSE

DoublePositive(x) == ~x.neg /\ x.bits # <<>>

\* |x| < |y|
MagnitudeLess(x, y) ==
    LET e == IF x.exp < y.exp THEN x.exp ELSE y.exp
        a == IF x.bits = <<>> THEN <<>> ELSE x.bits \o ZeroBits(x.exp - e)
        b == IF y.bits = <<>> THEN <<>> ELSE y.bits \o ZeroBits(y.exp - e)
    IN  BitsLess(a, b)

\* x < y
DoubleLess(x, y) ==
    IF x.neg /\ ~y.neg THEN TRUE
    ELSE IF ~x.neg /\ y.neg THEN FALSE
    ELSE IF x.neg THEN MagnitudeLess(y, x)
    ELSE MagnitudeLess(x, y)

\* The variables the pricing leaves alone
PricesUnchanged ==
    /\ UNCHANGED <<chain, rpc>>
    /\ UNCHANGED <<fetchVars, trackerVars, raceVars, decoderVars, pageVars>>

\* metadao.ts:346-351: the two pool accounts are decoded; without both
\* reserves there is no snapshot
DecodePools ==
    /\ pools.pc = "start"
    /\ LET passReserves == ParseAmmAccount(pools.pass)
           failReserves == ParseAmmAccount(pools.fail)
       IN  IF passReserves = ParsedNull \/ failReserves = ParsedNull
             THEN pools' = [pools EXCEPT !.pc = "done", !.ret = Null]
             ELSE pools' = [pools EXCEPT !.pc = "passPrice", !.decoded = TRUE,
                                         !.passReserves = passReserves,
                                         !.failReserves = failReserves]
    /\ PricesUnchanged

\* metadao.ts:354-355: Number(quoteReserves) / Number(baseReserves)
DivideReserves(reserves) ==
    DivideStart(DoubleOfBig(reserves.quoteReserves),
                DoubleOfBig(reserves.baseReserves))

\* metadao.ts:354: the division for passPrice begins
PricePass ==
    /\ pools.pc = "passPrice"
    /\ pools' = [pools EXCEPT !.pc = "passDivide",
                              !.div = DivideReserves(pools.passReserves)]
    /\ PricesUnchanged

\* A division under way takes a step
Divide ==
    /\ pools.pc \in {"passDivide", "failDivide", "thresholdDivide"}
    /\ ~Divided(pools.div)
    /\ pools' = [pools EXCEPT !.div = DivideStep(pools.div)]
    /\ PricesUnchanged

\* metadao.ts:354: passPrice is assigned
PricePassDone ==
    /\ pools.pc = "passDivide"
    /\ Divided(pools.div)
    /\ pools' = [pools EXCEPT !.pc = "failPrice", !.div = NoDivision,
                              !.passPrice = Quotient(pools.div)]
    /\ PricesUnchanged

\* metadao.ts:355: the division for failPrice begins
PriceFail ==
    /\ pools.pc = "failPrice"
    /\ pools' = [pools EXCEPT !.pc = "failDivide",
                              !.div = DivideReserves(pools.failReserves)]
    /\ PricesUnchanged

\* metadao.ts:355: failPrice is assigned
PriceFailDone ==
    /\ pools.pc = "failDivide"
    /\ Divided(pools.div)
    /\ pools' = [pools EXCEPT !.pc = "check", !.div = NoDivision,
                              !.failPrice = Quotient(pools.div)]
    /\ PricesUnchanged

\* metadao.ts:357-358, 373: the check of the prices; when it passes,
\* (passPrice - failPrice) / failPrice begins
PriceCheck ==
    /\ pools.pc = "check"
    /\ IF DoublePositive(pools.passPrice) /\ DoublePositive(pools.failPrice)
         THEN pools' = [pools EXCEPT
                  !.pc = "thresholdDivide",
                  !.div = DivideStart(DoubleSub(pools.passPrice,
                                                pools.failPrice),
                                      pools.failPrice)]
         ELSE pools' = [pools EXCEPT !.pc = "done", !.ret = Null]
    /\ PricesUnchanged

\* metadao.ts:358-371: the quotient times 100 is the threshold of the
\* snapshot; the status is the one of a proposal found pending
PriceSnapshot ==
    /\ pools.pc = "thresholdDivide"
    /\ Divided(pools.div)
    /\ pools' = [pools EXCEPT
           !.pc = "done", !.div = NoDivision,
           !.ret = ProposalData(ConfigPubkey, pools.passPrice,
                       pools.failPrice,
                       DoubleTimes100(Quotient(pools.div)), "pending", now)]
    /\ PricesUnchanged

\* (baseReserves, quoteReserves) of a pool: prices of 1.2, 0.83 and 1, the
\* largest and the smallest price two plausible reserves give, and pairs the
\* decoder turns down
PricedPairs ==
    {<<"million", "million12">>, <<"million12", "million">>,
     <<"million", "million">>, <<"thousand1", "below18">>,
     <<"below18", "thousand1">>, <<"zero", "zero">>,
     <<"thousand", "million12">>, <<"million", "tenTo18">>}

PricedPools ==
    {PoolData(300, pair, <<"zero", "zero">>, <<"zero", "zero">>) :
        pair \in PricedPairs}

InitPrices ==
    /\ FetchIdle
    /\ TrackerIdle
    /\ RaceIdle
    /\ DecoderIdle
    /\ PageIdle
    /\ chain = NoChain
    /\ rpc = RpcNotStarted
    /\ \E passData \in PricedPools, failData \in PricedPools :
         pools = [NotPriced EXCEPT !.pc = "start", !.pass = passData,
                                   !.fail = failData]

NextPrices ==
    \/ DecodePools
    \/ PricePass
    \/ Divide
    \/ PricePassDone
    \/ PriceFail
    \/ PriceFailDone
    \/ PriceCheck
    \/ PriceSnapshot

SpecPrices == InitPrices /\ [][NextPrices]_vars

(***************************************************************************)
(* The two page strategies on one page (metadao.ts:476-637, 653-835).      *)
(* Percentages are held in hundredths of a per cent and prices in          *)
(* thousandths of a dollar, as parseFloat reads them off the page.         *)
(***************************************************************************)

\* A percentage match of /([+-]?\d+\.\d{2,})\s*%/g: its value, and the
\* phrases around it, each with the number of characters a context must
\* reach from the match to hold the phrase
Token(value, near) == [value |-> value, near |-> near]

Near(phrase, dist) == [phrase |-> phrase, dist |-> dist]

TokenSamples ==
    [approved      |-> Token(500, {Near("approved", 100)}),
     passThreshold |-> Token(300, {Near("pass threshold", 120)}),
     closeToPrice  |-> Token(552, {Near("pass threshold", 50)}),
     negative      |-> Token(-300, {Near("approved", 10)}),
     failFar       |-> Token(700, {Near("fail", 180)}),
     approvedFar   |-> Token(400, {Near("approved", 170)}),
     passOnly      |-> Token(250, {Near("pass", 60)}),
     tooLarge      |-> Token(15000, {Near("approved", 10)})]

\* The matches of a page, in text order
TokenLists ==
    {<<>>}
    \cup {<<TokenSamples[a]>> : a \in DOMAIN TokenSamples}
    \cup {<<TokenSamples[a], TokenSamples[b]>> :
             a \in {"approved", "passThreshold", "closeToPrice", "failFar"},
             b \in {"approved", "passThreshold", "closeToPrice", "failFar"}}

\* The object findInObject returns for 'proposal', 'proposalData' or
\* 'pageProps' in the embedded data blob
Blob(threshold, pass_price, fail_price, details) ==
    [kind |-> "object", threshold |-> threshold, pass_price |-> pass_price,
     fail_price |-> fail_price, details |-> details]

\* The embedded data and the threshold a script tag spells out: no blob, a
\* blob that is not JSON, and blobs with and without a threshold
Embedded ==
    {<<NoBlob, NullNumber>>,
     <<NoBlob, Number(470)>>,
     <<[NoBlob EXCEPT !.kind = "unparseable"], NullNumber>>,
     <<Blob(Number(450), NullNumber, NullNumber, NullNumber), Number(450)>>,
     <<Blob(NullNumber, Number(1200), Number(1000), NullNumber), NullNumber>>,
     <<Blob(NullNumber, NullNumber, NullNumber, Number(460)), Number(460)>>}

\* The prices a page shows, as "Approve TWAP $x" / "Reject TWAP $x" in its
\* text and as "pass_price": x / "fail_price": x in its markup
PagePrices ==
    {<<NullNumber, NullNumber>>, <<Number(1200), Number(1000)>>,
     <<Number(1055), Number(1000)>>, <<Number(1200), Number(0)>>}

Pages ==
    {[blob |-> e[1], tokens |-> t, scriptThreshold |-> e[2],
      passPrice |-> pr[1], failPrice |-> pr[2]] :
        e \in Embedded, t \in TokenLists, pr \in PagePrices}

\* String.prototype.includes on a context: word is part of a phrase in it
Includes(context, word) ==
    \E phrase \in context :
        \/ word = phrase
        \/ phrase = "pass threshold" /\ word \in {"pass", "threshold"}

\* pageText.substring(index - radius, index + length + radius).toLowerCase()
Context(token, radius) == {n.phrase : n \in {m \in token.near : m.dist <= radius}}

\* value >= -100 && value <= 100 && Math.abs(value) > 0.01
LooksLikeThreshold(value) == value >= -10000 /\ value <= 10000 /\ Abs(value) > 1

\* `x || 0` on number | null
NumberOrZero(n) == IF n.null THEN 0 ELSE n.v

\* `a ?? b` on number | null
Nullish(a, b) == IF a.null THEN b ELSE a

\* ((passPrice - failPrice) / failPrice) * 100, in hundredths of a per cent
\* (metadao.ts:582, 806); null unless both prices are there and failPrice > 0
Calculated(passPrice, failPrice) ==
    IF ~passPrice.null /\ ~failPrice.null /\ failPrice.v > 0
      THEN Number(((passPrice.v - failPrice.v) * 10000) \div failPrice.v)
      ELSE NullNumber

\* The first of the indices in hits, 0 when there is none: where a loop
\* over the matches breaks or returns
FirstIndex(hits) ==
    IF hits = {} THEN 0 ELSE CHOOSE i \in hits : \A j \in hits : i <= j

\* metadao.ts:556-578: the loop breaks at the first match in range whose
\* context holds 'approved' or 'pass threshold' and whose value is positive
ContextHit(token) ==
    /\ LooksLikeThreshold(token.value)
    /\ \/ Includes(Context(token, 150), "approved") /\ token.value > 0
       \/ Includes(Context(token, 150), "pass threshold") /\ token.value > 0

FoundThreshold(tokens) ==
    LET i == FirstIndex({k \in 1..Len(tokens) : ContextHit(tokens[k])})
    IN  IF i = 0 THEN NullNumber ELSE Number(tokens[i].value)

\* metadao.ts:586-587: Math.abs(foundThreshold - calculatedThreshold) > 0.1
Tolerance == 10

DisagreeAlways(found, calculated) == TRUE

Disagree(found, calculated) == Abs(found - calculated) > Tolerance

\* metadao.ts:581-595
Reconciled(found, calculated) ==
    IF calculated.null THEN found
    ELSE IF found.null THEN calculated
    ELSE IF Disagree(found.v, calculated.v) THEN calculated ELSE found

\* metadao.ts:612-635
FallbackHit(token) ==
    /\ LooksLikeThreshold(token.value) /\ token.value > 0
    /\ \/ Includes(Context(token, 100), "threshold")
       \/ /\ Includes(Context(token, 100), "pass")
          /\ ~Includes(Context(token, 100), "fail")

\* The extraction of fetchFromWebpageWithPuppeteer (metadao.ts:478-637) on
\* the rendered page: the blob first, the text otherwise
RenderedExtraction(pg, ts) ==
    LET threshold == pg.blob.threshold
        found == FoundThreshold(pg.tokens)
        calculated == Calculated(pg.passPrice, pg.failPrice)
        final == Reconciled(found, calculated)
        fallback ==
            FirstIndex({k \in 1..Len(pg.tokens) : FallbackHit(pg.tokens[k])})
    IN  IF pg.blob.kind = "object" /\ ~threshold.null
          THEN [found |-> NullNumber, calculated |-> NullNumber,
                ret |-> ProposalData(ConfigPubkey, NumberOrZero(pg.blob.pass_price),
                            NumberOrZero(pg.blob.fail_price), threshold.v,
                            "active", ts)]
        ELSE [found |-> found, calculated |-> calculated,
              ret |-> IF ~final.null
                        THEN ProposalData(ConfigPubkey, NumberOrZero(pg.passPrice),
                                 NumberOrZero(pg.failPrice), final.v, "active", ts)
                      ELSE IF fallback # 0
                        THEN ProposalData(ConfigPubkey, 0, 0,
                                 pg.tokens[fallback].value, "active", ts)
                      ELSE Null]

\* metadao.ts:786-801: the first match in range with a keyword within 200
\* characters
StaticHit(token) ==
    /\ LooksLikeThreshold(token.value)
    /\ \E word \in {"threshold", "pass", "fail", "difference", "spread"} :
          Includes(Context(token, 200), word)

\* The extraction of fetchFromWebpage (metadao.ts:695-826) on the markup
StaticExtraction(pg, ts) ==
    LET isObject == pg.blob.kind = "object"
        threshold1 ==
            IF isObject THEN Nullish(pg.blob.threshold, pg.blob.details)   \* 724-736
            ELSE NullNumber
        threshold2 == Nullish(threshold1, pg.scriptThreshold)              \* 749-765
        passPrice ==
            Nullish(IF isObject THEN pg.blob.pass_price ELSE NullNumber,
                    pg.passPrice)                                          \* 725, 768-771
        failPrice ==
            Nullish(IF isObject THEN pg.blob.fail_price ELSE NullNumber,
                    pg.failPrice)                                          \* 726, 772-775
        hit == FirstIndex({k \in 1..Len(pg.tokens) : StaticHit(pg.tokens[k])})
        threshold3 ==
            Nullish(threshold2,
                    IF hit = 0 THEN NullNumber ELSE Number(pg.tokens[hit].value))
        threshold == Nullish(threshold3, Calculated(passPrice, failPrice)) \* 805-808
    IN  IF ~threshold.null
          THEN ProposalData(ConfigPubkey, NumberOrZero(passPrice),
                   NumberOrZero(failPrice), threshold.v, "active", ts)
          ELSE Null

\* Bound of the model: how long the clock runs, in milliseconds
MaxWait == 3000

\* metadao.ts:657: setTimeout(resolve, 2000)
PacingDelay == 2000

\* The timer set at instant set has fired by instant t
TimerDueAtOnce(set, t) == TRUE

TimerDue(set, t) == t >= set + PacingDelay

\* fetchFromWebpage is entered and sets its timer (metadao.ts:655-657)
WebStart ==
    /\ web.pc = "start"
    /\ web' = [web EXCEPT !.pc = "delay", !.timerSet = now]
    /\ UNCHANGED <<page, rendered, browser>>
    /\ UNCHANGED <<fetchVars, trackerVars, raceVars, decoderVars, chainVars>>

\* A second passes while fetchFromWebpage waits
Tick ==
    /\ web.pc = "delay"
    /\ now + 1000 <= MaxWait
    /\ now' = now + 1000
    /\ UNCHANGED <<file, last, appended, persistOk>>
    /\ UNCHANGED <<fetchVars, raceVars, decoderVars, chainVars, pageVars>>

\* The timer has fired: the page is requested (metadao.ts:659-672)
WebRequest ==
    /\ web.pc = "delay"
    /\ TimerDue(web.timerSet, now)
    /\ web' = [web EXCEPT !.pc = "fetch", !.requests = @ + 1, !.requestedAt = now]
    /\ UNCHANGED <<page, rendered, browser>>
    /\ UNCHANGED <<fetchVars, trackerVars, raceVars, decoderVars, chainVars>>

\* What the site answers to the request
PageAnswers == {"fetch_rejects", "rate_limited", "non_ok", "text_rejects", "ok"}

\* The site answers and fetchFromWebpage runs to its return
\* (metadao.ts:675-834)
WebRespond ==
    /\ web.pc = "fetch"
    /\ \E o \in PageAnswers :
         LET body == CASE o = "fetch_rejects" -> Thrown     \* 659
                       [] o = "rate_limited"  -> Null       \* 675-691, status 429
                       [] o = "non_ok"        -> Null       \* 675-691
                       [] o = "text_rejects"  -> Thrown     \* 693
                       [] o = "ok"            -> StaticExtraction(page, now)
         IN  web' = [web EXCEPT !.pc = "done", !.status = o,
                                !.ret = CatchReturnNull(body)]
    /\ UNCHANGED <<page, rendered, browser>>
    /\ UNCHANGED <<fetchVars, trackerVars, raceVars, decoderVars, chainVars>>

\* The rendered-page strategy has reached the page and extracts from it
\* (metadao.ts:476-637)
RenderedExtract ==
    /\ rendered = NotExtracted
    /\ rendered' = RenderedExtraction(page, now)
    /\ UNCHANGED <<page, web, browser>>
    /\ UNCHANGED <<fetchVars, trackerVars, raceVars, decoderVars, chainVars>>

InitPage ==
    /\ FetchIdle
    /\ TrackerIdle
    /\ RaceIdle
    /\ DecoderIdle
    /\ ChainIdle
    /\ page \in Pages
    /\ web = [WebNotStarted EXCEPT !.pc = "start"]
    /\ rendered = NotExtracted
    /\ browser = BrowserNotStarted

NextPage ==
    \/ WebStart
    \/ Tick
    \/ WebRequest
    \/ WebRespond
    \/ RenderedExtract

SpecPage == InitPage /\ [][NextPage]_vars

(***************************************************************************)
(* fetchFromWebpageWithPuppeteer in steps (metadao.ts:381-650): one step   *)
(* per await, with its three timers                                        *)
(***************************************************************************)

\* metadao.ts:433: page.goto gives up after this long
GotoTimeout == 60000

\* metadao.ts:449: page.waitForNavigation gives up after this long
NavigationTimeout == 30000

\* metadao.ts:457: setTimeout(resolve, 5000)
ContentDelay == 5000

\* What the browser shows: its title and what its address contains
Site(title, metadao, challenge) ==
    [title |-> title, url |-> [metadao |-> metadao, challenge |-> challenge]]

Sites ==
    {Site(t, m, c) : t \in {"Vercel Security Checkpoint", "Proposal"},
                     m \in BOOLEAN, c \in BOOLEAN}

\* The proposal page itself
ProposalSite == Site("Proposal", TRUE, FALSE)

\* metadao.ts:444
IsChallenge(site) ==
    site.title = "Vercel Security Checkpoint" \/ site.url.challenge

\* metadao.ts:461
NeverStillOnChallenge(title) == FALSE

StillOnChallenge(title) == title = "Vercel Security Checkpoint"

\* metadao.ts:471
WrongPage(url) == ~url.metadao \/ url.challenge

\* A timer of the given duration set at instant set has run out at instant t
NeverExpired(set, duration, t) == FALSE

Expired(set, duration, t) == t >= set + duration

\* The timer the strategy is waiting on, if any
Waiting(b) ==
    CASE b.pc = "goto"    -> GotoTimeout
      [] b.pc = "waitnav" -> NavigationTimeout
      [] b.pc = "sleep"   -> ContentDelay
      [] OTHER            -> 0

\* Leave the inner try with a completion: the finally block comes next
\* (metadao.ts:639)
ToFinally(b, completion) == [b EXCEPT !.pc = "finally", !.body = completion]

\* Return before there is a browser (metadao.ts:389, 393, 410)
ReturnNull(b) == [b EXCEPT !.pc = "done", !.body = Null, !.ret = Null]

\* metadao.ts:385-394: the dynamic import
BrowserImport ==
    /\ browser.pc = "start"
    /\ \E o \in {"import_fails", "no_default", "ok"} :
         browser' = IF o = "ok" THEN [browser EXCEPT !.pc = "launch"]
                    ELSE ReturnNull(browser)
    /\ UNCHANGED <<page, web, rendered>>
    /\ UNCHANGED <<fetchVars, trackerVars, raceVars, decoderVars, chainVars>>

\* metadao.ts:398-411: puppeteer.default.launch
BrowserLaunch ==
    /\ browser.pc = "launch"
    /\ \E o \in {"launch_fails", "ok"} :
         browser' = IF o = "ok"
                      THEN [browser EXCEPT !.pc = "setup", !.launched = TRUE]
                    ELSE ReturnNull(browser)
    /\ UNCHANGED <<page, web, rendered>>
    /\ UNCHANGED <<fetchVars, trackerVars, raceVars, decoderVars, chainVars>>

\* metadao.ts:414-431: newPage, setViewport, setUserAgent,
\* evaluateOnNewDocument, and the call of page.goto
BrowserSetup ==
    /\ browser.pc = "setup"
    /\ \E o \in {"setup_rejects", "ok"} :
         browser' = IF o = "ok"
                      THEN [browser EXCEPT !.pc = "goto", !.timerSet = now]
                    ELSE ToFinally(browser, Thrown)
    /\ UNCHANGED <<page, web, rendered>>
    /\ UNCHANGED <<fetchVars, trackerVars, raceVars, decoderVars, chainVars>>

\* metadao.ts:436-454 and 465-467: what follows a navigation that settled
AfterGoto(b, o, site, t) ==
    IF o \in {"goto_rejects", "no_response", "title_rejects"}
      THEN ToFinally(b, Null)
    ELSE IF IsChallenge(site)
      THEN [b EXCEPT !.pc = "waitnav", !.site = site, !.detected = TRUE,
                     !.timerSet = t]
    ELSE [b EXCEPT !.pc = "sleep", !.site = site, !.timerSet = t]

\* page.goto settles before its timeout
BrowserGotoSettles ==
    /\ browser.pc = "goto"
    /\ \E o \in {"goto_rejects", "no_response", "title_rejects", "ok"},
          site \in Sites :
         /\ o # "ok" => site = ProposalSite
         /\ browser' = AfterGoto(browser, o, site, now)
    /\ UNCHANGED <<page, web, rendered>>
    /\ UNCHANGED <<fetchVars, trackerVars, raceVars, decoderVars, chainVars>>

\* page.goto times out: it rejects (metadao.ts:433, 465-467)
BrowserGotoExpires ==
    /\ browser.pc = "goto"
    /\ Expired(browser.timerSet, GotoTimeout, now)
    /\ browser' = AfterGoto(browser, "goto_rejects", ProposalSite, now)
    /\ UNCHANGED <<page, web, rendered>>
    /\ UNCHANGED <<fetchVars, trackerVars, raceVars, decoderVars, chainVars>>

\* metadao.ts:446-457: the wait for the challenge is over, one way or the
\* other, and the content timer is set
AfterWait(b, site, t) ==
    [b EXCEPT !.pc = "sleep", !.site = site, !.waited = t - b.timerSet,
              !.timerSet = t]

\* page.waitForNavigation settles before its timeout: the browser went to
\* another page, or the call rejected and the rejection is dropped
BrowserNavigated ==
    /\ browser.pc = "waitnav"
    /\ \E site \in Sites : browser' = AfterWait(browser, site, now)
    /\ UNCHANGED <<page, web, rendered>>
    /\ UNCHANGED <<fetchVars, trackerVars, raceVars, decoderVars, chainVars>>

\* page.waitForNavigation times out: the rejection is dropped
\* (metadao.ts:449-453)
BrowserWaitExpires ==
    /\ browser.pc = "waitnav"
    /\ Expired(browser.timerSet, NavigationTimeout, now)
    /\ browser' = AfterWait(browser, browser.site, now)
    /\ UNCHANGED <<page, web, rendered>>
    /\ UNCHANGED <<fetchVars, trackerVars, raceVars, decoderVars, chainVars>>

\* The challenge clears while the strategy waits for the content
ChallengeClears ==
    /\ browser.pc = "sleep"
    /\ IsChallenge(browser.site)
    /\ browser' = [browser EXCEPT !.site = ProposalSite]
    /\ UNCHANGED <<page, web, rendered>>
    /\ UNCHANGED <<fetchVars, trackerVars, raceVars, decoderVars, chainVars>>

\* metadao.ts:459-473: the content timer fired; the title and the address
\* are looked at again
BrowserCheck ==
    /\ browser.pc = "sleep"
    /\ Expired(browser.timerSet, ContentDelay, now)
    /\ \E o \in {"title_rejects", "ok"} :
         LET b == [browser EXCEPT !.currentTitle =
                      IF o = "ok" THEN browser.site.title ELSE "none"]
         IN  browser' =
               IF o = "title_rejects" THEN ToFinally(b, Null)          \* 465
               ELSE IF StillOnChallenge(browser.site.title)
                 THEN ToFinally(b, Null)                               \* 462
               ELSE IF WrongPage(browser.site.url)
                 THEN ToFinally(b, Null)                               \* 472
               ELSE [b EXCEPT !.pc = "extract"]
    /\ UNCHANGED <<page, web, rendered>>
    /\ UNCHANGED <<fetchVars, trackerVars, raceVars, decoderVars, chainVars>>

\* metadao.ts:476-637: the page is read and searched
BrowserExtract ==
    /\ browser.pc = "extract"
    /\ \E o \in {"evaluate_throws", "nothing_found"} \cup PuppeteerSuccesses,
          thr \in PageThresholds :
         browser' = [ToFinally(browser, PuppeteerTryBody(o, thr, now))
                        EXCEPT !.extracted = TRUE]
    /\ UNCHANGED <<page, web, rendered>>
    /\ UNCHANGED <<fetchVars, trackerVars, raceVars, decoderVars, chainVars>>

\* metadao.ts:641: `if (browser)`
CloseSkipped(launched) == FALSE

CloseCalled(launched) == launched

\* metadao.ts:639-646: the finally block; a rejection of close is dropped
BrowserFinally ==
    /\ browser.pc = "finally"
    /\ \E o \in {"closed", "close_rejects"} :
         browser' = [browser EXCEPT
                        !.pc = "settle",
                        !.closeCalled = CloseCalled(browser.launched),
                        !.closed = CloseCalled(browser.launched) /\ o = "closed"]
    /\ UNCHANGED <<page, web, rendered>>
    /\ UNCHANGED <<fetchVars, trackerVars, raceVars, decoderVars, chainVars>>

\* The completion of the inner try leaves the function: a return value as it
\* is, a throw through the outer catch (metadao.ts:647-649)
BrowserSettle ==
    /\ browser.pc = "settle"
    /\ browser' = [browser EXCEPT !.pc = "done",
                                  !.ret = CatchReturnNull(browser.body)]
    /\ UNCHANGED <<page, web, rendered>>
    /\ UNCHANGED <<fetchVars, trackerVars, raceVars, decoderVars, chainVars>>

\* Time passes while a timer of the strategy runs
BrowserTick ==
    /\ Waiting(browser) > 0
    /\ now < browser.timerSet + Waiting(browser)
    /\ now' = now + ContentDelay
    /\ UNCHANGED <<file, last, appended, persistOk>>
    /\ UNCHANGED <<fetchVars, raceVars, decoderVars, chainVars, pageVars>>

InitBrowser ==
    /\ FetchIdle
    /\ TrackerIdle
    /\ RaceIdle
    /\ DecoderIdle
    /\ ChainIdle
    /\ page = NoPage
    /\ web = WebNotStarted
    /\ rendered = NotExtracted
    /\ browser = [BrowserNotStarted EXCEPT !.pc = "start"]

\* The steps the runtime takes once they are due: the calls into the
\* library that carry no timeout of their own settle, the timers fire
BrowserProgress ==
    \/ BrowserImport
    \/ BrowserLaunch
    \/ BrowserSetup
    \/ BrowserGotoExpires
    \/ BrowserWaitExpires
    \/ BrowserCheck
    \/ BrowserExtract
    \/ BrowserFinally
    \/ BrowserSettle

NextBrowser ==
    \/ BrowserImport
    \/ BrowserLaunch
    \/ BrowserSetup
    \/ BrowserGotoSettles
    \/ BrowserGotoExpires
    \/ BrowserNavigated
    \/ BrowserWaitExpires
    \/ ChallengeClears
    \/ BrowserCheck
    \/ BrowserExtract
    \/ BrowserFinally
    \/ BrowserSettle
    \/ BrowserTick

SpecBrowser == InitBrowser /\ [][NextBrowser]_vars

\* The same under the scheduling of the runtime: what the site does
\* (BrowserGotoSettles, BrowserNavigated, ChallengeClears) is left to it
SpecBrowserFair ==
    /\ SpecBrowser
    /\ WF_vars(BrowserProgress)
    /\ WF_vars(BrowserTick)

(***************************************************************************)
(* Properties of the fetch cascade, checked under Spec                     *)
(***************************************************************************)

\* The priority order the specification states: structured query, rendered
\* page, static HTML, chain reconstruction, market-context probe
Priority == <<"graphql", "puppeteer", "webpage", "rpc", "market">>

Ranks == 1..Len(Priority)

FailureOutcomes(s) ==
    CASE s = "graphql"   -> GraphQLFailures
      [] s = "puppeteer" -> PuppeteerFailures
      [] s = "webpage"   -> WebpageFailures
      [] s = "rpc"       -> RpcFailures
      [] s = "market"    -> MarketOutcomes \ {"symbol_found", "symbol_absent"}

\* C1: within one call of fetchProposalData, once a strategy has yielded a
\* snapshot no strategy later in the priority order is invoked; in particular
\* after a successful structured query strategies 2 to 5 are invoked zero times.
C1_ShortCircuit ==
    /\ \A i, j \in Ranks :
         (i < j /\ Truthy(result[Priority[i]])) => calls[Priority[j]] = 0
    /\ Truthy(result["graphql"]) =>
         \A s \in Strategies \ {"graphql"} : calls[s] = 0

\* A cycle that ended with the static HTML strategy succeeding after the
\* structured query and the rendered page gave no data
C1_Witness ==
    /\ pc = "done"
    /\ Truthy(result["webpage"])
    /\ calls["graphql"] = 1 /\ calls["puppeteer"] = 1
    /\ calls["rpc"] = 0 /\ calls["market"] = 0

\* C2: a strategy is started only after every strategy before it in the
\* priority order has settled with no data or was skipped, at most one strategy
\* is in flight at any time, and a returned snapshot is the one of the first
\* strategy in the priority order that yielded a snapshot.
C2_StrictOrder ==
    /\ Cardinality(inflight) <= 1
    /\ \A s \in Strategies : calls[s] <= 1
    /\ \A i, j \in Ranks :
         (i < j /\ calls[Priority[j]] > 0) =>
            \/ result[Priority[i]] = Null
            \/ (Priority[i] = "puppeteer" /\ isWorkers /\ calls[Priority[i]] = 0)
    /\ (pc = "done" /\ Truthy(ret)) =>
         \E i \in Ranks :
            /\ Truthy(result[Priority[i]])
            /\ ret = result[Priority[i]]
            /\ \A k \in Ranks : k < i => ~Truthy(result[Priority[k]])

\* A cycle in which chain reconstruction, the fourth strategy, produced the
\* returned snapshot after the three before it ran and gave no data
C2_Witness ==
    /\ pc = "done"
    /\ Truthy(ret)
    /\ ret = result["rpc"]
    /\ result["graphql"] = Null /\ result["puppeteer"] = Null
    /\ result["webpage"] = Null
    /\ calls["puppeteer"] = 1

\* C3: fetchProposalData never raises: it settles to a snapshot or to null, and
\* to null when no strategy yielded a snapshot.
C3_ExhaustionIsNull ==
    /\ ret.kind # "throw"
    /\ pc = "done" => ret.kind \in {"snapshot", "null"}
    /\ (pc = "done" /\ \A s \in Strategies : ~Truthy(result[s])) => ret = Null

\* A cycle in which all five strategies ran and each gave no data
C3_Witness ==
    /\ pc = "done"
    /\ ret = Null
    /\ \A s \in Strategies : calls[s] = 1 /\ result[s] = Null

\* C4: no strategy settles with an exception, and a strategy whose environment
\* failed (network error, non-OK or malformed response, decode failure,
\* timeout) settles with null.
C4_StrategiesAbsorbFailures ==
    \A s \in Strategies :
       /\ result[s].kind # "throw"
       /\ (s \notin inflight /\ env[s] \in FailureOutcomes(s)) => result[s] = Null

\* Chain reconstruction settled with null although a pool lookup rejected, and
\* the static HTML strategy before it although its fetch rejected
C4_Witness ==
    /\ env["rpc"] = "pool_lookup_rejects" /\ result["rpc"] = Null
    /\ env["webpage"] = "fetch_rejects" /\ result["webpage"] = Null

\* C17: the market-context probe settles with no data whatever the ticker feed
\* answers (symbol found, symbol absent, non-OK, malformed, network error), and
\* a cycle that reached the probe ends unavailable.
C17_ProbeNeverYieldsData ==
    /\ result["market"] \in {NotRun, Null}
    /\ (calls["market"] > 0 /\ "market" \notin inflight) =>
          /\ env["market"] \in MarketOutcomes
          /\ result["market"] = Null
          /\ pc = "done" /\ ret = Null
    /\ (pc = "done" /\ Truthy(ret)) => calls["market"] = 0

\* The ticker feed listed the governance token's symbol and the cycle still
\* ended unavailable
C17_Witness ==
    /\ pc = "done"
    /\ env["market"] = "symbol_found"
    /\ result["market"] = Null
    /\ ret = Null

\* C18: when the runtime cannot host a headless browser the rendered-page
\* strategy is never invoked, and after a structured query that gave no data
\* the cascade goes on with static HTML extraction, then chain reconstruction,
\* then the market probe.
C18_RestrictedRuntimeSkipsBrowser ==
    isWorkers =>
       /\ calls["puppeteer"] = 0
       /\ result["puppeteer"] = NotRun
       /\ "puppeteer" \notin inflight
       /\ (result["graphql"] = Null /\ pc # "call") => calls["webpage"] = 1
       /\ (result["webpage"] = Null /\ pc # "call") => calls["rpc"] = 1
       /\ (result["rpc"] = Null /\ pc # "call") => calls["market"] = 1
       /\ calls["webpage"] > 0 => result["graphql"] = Null
       /\ calls["rpc"] > 0 => result["webpage"] = Null
       /\ calls["market"] > 0 => result["rpc"] = Null

\* A cycle in a restricted runtime that ran the four other strategies to the
\* end without the rendered page
C18_Witness ==
    /\ isWorkers
    /\ pc = "done"
    /\ calls = [s \in Strategies |-> IF s = "puppeteer" THEN 0 ELSE 1]
    /\ result["graphql"] = Null /\ result["webpage"] = Null
    /\ result["rpc"] = Null /\ result["market"] = Null

(***************************************************************************)
(* Properties of the history store, checked under SpecTracker and          *)
(* SpecRotation                                                            *)
(***************************************************************************)

WellFormed(f) == f.kind = "object" /\ f.entriesKind = "array"

Range(seq) == {seq[i] : i \in 1..Len(seq)}

\* C5: whatever persisted state of at most 168 entries the store starts from
\* and whatever is appended, the persisted history never holds more than 168
\* entries.
C5_AtMostCapEntries ==
    WellFormed(file) => Len(file.entries) <= 168

\* An append to a full history was written and left a full history
C5_Witness ==
    /\ last.op = "record" /\ last.write = "ok"
    /\ WellFormed(last.pre) /\ Len(last.pre.entries) = 168
    /\ last.pre.proposalPubkey = last.data.proposalPubkey
    /\ Len(file.entries) = 168

Min(a, b) == IF a <= b THEN a ELSE b

\* C6: starting from no history, after n appends for one proposal whose writes
\* all succeeded the persisted entries are the projections of the last
\* min(n, 168) appended snapshots in append order; an append to a full history
\* drops exactly the oldest entry and puts the new entry last.
C6_FifoEviction ==
    LET n == Len(appended)
        k == Min(n, 168)
    IN  (persistOk /\ n >= 1) =>
          /\ WellFormed(file)
          /\ file.entries = [i \in 1..k |-> HistoryEntry(appended[n - k + i])]
          /\ (WellFormed(last.pre) /\ Len(last.pre.entries) = 168) =>
                file.entries = Append(Tail(last.pre.entries), HistoryEntry(last.data))

\* Two appends past the cap: 170 snapshots appended, 168 entries kept
C6_Witness ==
    /\ persistOk
    /\ Len(appended) = 170
    /\ Len(file.entries) = 168
    /\ file.entries[1] = HistoryEntry(appended[3])

C8_CorruptStorageIsNoHistory ==
    (last.op # "none" /\ last.pre \in {MissingFile} \cup CorruptFiles) =>
       /\ ~last.raised
       /\ (last.op = "record" /\ last.write = "ok") =>
             file = ThresholdHistory(last.data.proposalPubkey,
                                     <<HistoryEntry(last.data)>>)
       /\ last.op = "report" =>
             /\ last.report.previousHour = NullNumber
             /\ last.report.variation = NullNumber
             /\ last.report.variationPercent = NullFraction

\* C14: a report build leaves the persisted history as it was, and every step
\* that changes the persisted history is a recordThreshold.
C14_ReportOnlyReads ==
    [][/\ last'.op = "report" => file' = file
       /\ file' # file => last'.op = "record"]_vars

\* A report built after an append, the file being the one the append left
C14_Witness ==
    /\ last.op = "report"
    /\ Len(appended) >= 1
    /\ WellFormed(file)
    /\ file = last.pre
    /\ file.entries[Len(file.entries)] = HistoryEntry(appended[Len(appended)])

\* The instance whose write came first, and the one whose write came last
FirstWriter == CHOOSE i \in Instances : sched[i].turn = 1

LastWriter == CHOOSE i \in Instances : sched[i].turn = 2

\* C15: when both instances have appended with successful writes, the file is
\* the history the last writer built from what it had loaded; if it had loaded
\* before the first writer saved, the first writer's entry is missing from the
\* file, and only if it loaded afterwards (same identity) are both present.
C15_OverlapLosesAnEntry ==
    (\A i \in Instances : sched[i].pc = "done" /\ sched[i].write = "ok") =>
       LET lost == HistoryEntry(sched[FirstWriter].data)
           kept == HistoryEntry(sched[LastWriter].data)
       IN  /\ file = sched[LastWriter].history
           /\ kept \in Range(file.entries)
           /\ sched[LastWriter].pre = sched[FirstWriter].pre =>
                 lost \notin Range(file.entries)
           /\ (/\ sched[LastWriter].pre = sched[FirstWriter].history
               /\ sched[LastWriter].data.proposalPubkey
                     = sched[FirstWriter].data.proposalPubkey) =>
                 lost \in Range(file.entries)

\* Both instances appended for the same proposal to a history of one entry,
\* both writes succeeded, and the file holds two entries: the one of
\* instance 1 is missing
C15_Witness ==
    /\ \A i \in Instances :
          /\ sched[i].pc = "done" /\ sched[i].write = "ok"
          /\ sched[i].data.proposalPubkey = ConfigPubkey
          /\ sched[i].pre = ThresholdHistory(ConfigPubkey, HourlyEntries(1))
    /\ Len(file.entries) = 2
    /\ HistoryEntry(sched[1].data) \notin Range(file.entries)
    /\ HistoryEntry(sched[2].data) \in Range(file.entries)

\* C16: after update cycles that run one after another under a clock that
\* never goes back, the timestamps of the persisted entries are non-decreasing
\* in sequence order and none is later than the clock.
C16_InsertionOrderIsTimeOrder ==
    WellFormed(file) =>
       /\ \A i \in 1..(Len(file.entries) - 1) :
             DateParse(file.entries[i].timestamp)
                <= DateParse(file.entries[i + 1].timestamp)
       /\ \A i \in 1..Len(file.entries) :
             DateParse(file.entries[i].timestamp) <= now

\* Two cycles appended to a history of two entries, the second in the same
\* millisecond as the first: four entries, the last two of equal timestamp
C16_Witness ==
    /\ last.op = "update" /\ last.write = "ok"
    /\ Len(appended) = 2
    /\ WellFormed(file) /\ Len(file.entries) = 4
    /\ DateParse(file.entries[2].timestamp) < DateParse(file.entries[3].timestamp)
    /\ file.entries[3].timestamp = file.entries[4].timestamp

(***************************************************************************)
(* Properties of the report builder, checked under SpecReport              *)
(***************************************************************************)

\* The distance of entry i of the history read from one hour before the snapshot
Distance(i) ==
    Abs(DateParse(last.pre.entries[i].timestamp) - (last.data.timestamp - OneHour))

\* The entries less than 10 minutes from that instant, and the closest of them
Candidates == {i \in 1..Len(last.pre.entries) : Distance(i) < 10 * 60 * 1000}

Nearest == {i \in Candidates : \A j \in Candidates : Distance(i) <= Distance(j)}

PreviousHourIsNearest ==
    IF Candidates = {}
      THEN last.report.previousHour = NullNumber
      ELSE \E i \in Nearest :
              last.report.previousHour = Number(last.pre.entries[i].threshold)

\* C9 as stated: for a snapshot that is not finalized, previousHour is the
\* threshold of the entry of the persisted history closest to one hour before
\* the snapshot among those within 10 minutes of it, and null when there is none.
C9_AsStated ==
    (last.op = "report" /\ WellFormed(last.pre) /\ ~IsFinalized(last.data.status))
       => PreviousHourIsNearest

\* C9 amended: the same when the persisted history carries the snapshot's
\* proposal identity; when it is absent or carries another identity,
\* previousHour is null whatever its entries.
C9_PreviousHourOfSameProposal ==
    (last.op = "report" /\ ~IsFinalized(last.data.status)) =>
       /\ (WellFormed(last.pre)
             /\ last.pre.proposalPubkey = last.data.proposalPubkey)
            => PreviousHourIsNearest
       /\ (\/ last.pre \in {MissingFile, UnreadableFile, UnparseableFile}
           \/ (WellFormed(last.pre)
                 /\ last.pre.proposalPubkey # last.data.proposalPubkey))
            => last.report.previousHour = NullNumber

\* Entries 65, 58, 50 and 5 minutes old: the one 58 minutes old is selected
C9_Witness ==
    /\ last.op = "report"
    /\ last.data.status = "active"
    /\ last.pre = ThresholdHistory(last.data.proposalPubkey,
                     <<EntryAt(65, -2), EntryAt(58, 7), EntryAt(50, -1), EntryAt(5, 2)>>)
    /\ last.closest = 2
    /\ last.report.previousHour = Number(7)

\* C10: the entry selected is the first, in insertion order, of the entries at
\* the least distance from one hour before the snapshot, and previousHour is
\* its threshold.
C10_FirstOfTheNearest ==
    (last.op = "report" /\ last.closest # 0) =>
       /\ last.closest \in Nearest
       /\ \A j \in Nearest : last.closest <= j
       /\ last.report.previousHour =
             Number(last.pre.entries[last.closest].threshold)

\* Two entries equally near, 62 and 58 minutes old or both 58 minutes old,
\* with different thresholds: the earlier inserted one was selected
C10_Witness ==
    /\ last.op = "report"
    /\ last.closest # 0
    /\ \E j \in Nearest :
          /\ j > last.closest
          /\ last.pre.entries[j].threshold # last.pre.entries[last.closest].threshold

\* C11: when an entry is found, variation is the current threshold minus
\* previousHour and variationPercent is variation / |previousHour| * 100, or
\* null when previousHour is 0; when none is found, previousHour, variation and
\* variationPercent are null together.
C11_VariationFields ==
    (last.op = "report" /\ ~last.raised) =>
       LET r == last.report
       IN  IF last.closest # 0
             THEN /\ ~r.previousHour.null
                  /\ r.variation = Number(r.current - r.previousHour.v)
                  /\ IF r.previousHour.v = 0
                       THEN r.variationPercent = NullFraction
                       ELSE /\ ~r.variationPercent.null
                            /\ r.variationPercent.den > 0
                            /\ r.variationPercent.den \in
                                  {r.previousHour.v, 0 - r.previousHour.v}
                            /\ r.variationPercent.num =
                                  (r.current - r.previousHour.v) * 100
             ELSE /\ r.previousHour = NullNumber
                  /\ r.variation = NullNumber
                  /\ r.variationPercent = NullFraction

\* A previous-hour threshold of -2 against a current one of 20: variation 22,
\* variationPercent 2200 / 2
C11_Witness ==
    /\ last.op = "report"
    /\ last.report.previousHour = Number(-2)
    /\ last.report.current = 20
    /\ last.report.variation = Number(22)
    /\ last.report.variationPercent = [null |-> FALSE, num |-> 2200, den |-> 2]

\* The spellings of the three end states among the status labels
FinalizedSpellings ==
    {"passed", "Passed", "PASSED", "failed", "Failed", "FAILED",
     "executed", "Executed", "EXECUTED"}

\* C12: isFinalized is true exactly when the status, letter case aside, is
\* passed, failed or executed, and false for every other status.
C12_FinalizedIffEndState ==
    (last.op = "report" /\ ~last.raised) =>
       (last.report.isFinalized <=> last.data.status \in FinalizedSpellings)

\* A report built for the upper-case spelling "PASSED"
C12_Witness ==
    /\ last.op = "report" /\ ~last.raised
    /\ last.data.status = "PASSED"
    /\ last.report.isFinalized

\* C13: for a finalized status the report has isFinalized = true and null
\* previousHour, variation and variationPercent, whatever the history holds.
C13_FinalizedSuppression ==
    (last.op = "report" /\ ~last.raised /\ last.data.status \in FinalizedSpellings) =>
       /\ last.report.isFinalized
       /\ last.report.previousHour = NullNumber
       /\ last.report.variation = NullNumber
       /\ last.report.variationPercent = NullFraction

(***************************************************************************)
(* Properties of the account decoders, checked under SpecDecode            *)
(***************************************************************************)

\* The record a proposal account of field values f stands for
ProposalOf(f) ==
    [kind |-> "proposal",
     number |-> f.number,
     proposer |-> PublicKey(Address(f.seed)),
     timestampEnqueued |-> f.timestampEnqueued,
     state |-> f.state,
     baseVault |-> PublicKey(Address(f.seed + 40)),
     quoteVault |-> PublicKey(Address(f.seed + 80)),
     dao |-> PublicKey(Address(f.seed + 120)),
     pdaBump |-> f.pdaBump,
     question |-> PublicKey(Address(f.seed + 160)),
     durationInSeconds |-> f.durationInSeconds,
     squadsProposal |-> PublicKey(Address(f.seed + 200)),
     passBaseMint |-> PublicKey(Address(f.seed + 240)),
     passQuoteMint |-> PublicKey(Address(f.seed + 280)),
     failBaseMint |-> PublicKey(Address(f.seed + 320)),
     failQuoteMint |-> PublicKey(Address(f.seed + 360)),
     isTeamSponsored |-> f.isTeamSponsored]

Decoded == parsed # NotParsed

\* C19 as stated: a 293-byte buffer built from known field values decodes to a
\* proposal carrying those values, as far as 293 bytes hold them.
C19_AsStated ==
    \A f \in ProposalFields :
       (Decoded /\ buffer = Resize(EncodeProposal(f), 293)) =>
          /\ parsed.proposal.kind = "proposal"
          /\ parsed.proposal.number = f.number
          /\ parsed.proposal.proposer = PublicKey(Address(f.seed))
          /\ parsed.proposal.timestampEnqueued = f.timestampEnqueued
          /\ parsed.proposal.state = f.state

\* C19 amended: a buffer of 347 bytes or more built from known field values
\* decodes to exactly those values; one of fewer than 347 bytes, 293 included,
\* decodes to none.
C19_RoundTripAt347 ==
    \A f \in ProposalFields, n \in BufferLengths :
       (Decoded /\ buffer = Resize(EncodeProposal(f), n)) =>
          IF n >= 347
            THEN parsed.proposal = ProposalOf(f)
            ELSE parsed.proposal = ParsedNull

\* A 347-byte buffer with a negative timestamp, a sequence number of three
\* distinct bytes and the sponsorship flag set was decoded
C19_Witness ==
    /\ Decoded
    /\ Len(buffer) = 347
    /\ parsed.proposal.kind = "proposal"
    /\ parsed.proposal.number = 66051
    /\ parsed.proposal.timestampEnqueued = -2
    /\ parsed.proposal.state = 3
    /\ parsed.proposal.isTeamSponsored
    /\ parsed.proposal.failQuoteMint = PublicKey(Address(361))

\* C20: no decoder throws, and each returns none for a buffer shorter than its
\* minimum: 293 bytes for a proposal, 64 for a question, 100 for a pool.
C20_ShortBuffersDecodeToNone ==
    Decoded =>
       /\ parsed.proposal.kind \in {"null", "proposal"}
       /\ parsed.question.kind \in {"null", "question"}
       /\ parsed.amm.kind \in {"null", "reserves"}
       /\ Len(buffer) < 293 => parsed.proposal = ParsedNull
       /\ Len(buffer) < 64 => parsed.question = ParsedNull
       /\ Len(buffer) < 100 => parsed.amm = ParsedNull

\* A 99-byte buffer ending in two plausible reserves was refused by the pool
\* decoder and by the proposal decoder
C20_Witness ==
    /\ Decoded
    /\ buffer = AmmBuffer(99, 83, 1000000, 1200000)
    /\ parsed.amm = ParsedNull
    /\ parsed.proposal = ParsedNull

(***************************************************************************)
(* Properties of the structured-query strategy, checked under Spec         *)
(***************************************************************************)

\* A price of the response, an absent one counting as 0
PriceOrZero(x) == IF x = Absent THEN 0 ELSE x

\* C23: every snapshot the structured-query strategy produces has
\* threshold = (passPrice - failPrice) / failPrice * 100 when failPrice > 0
\* and threshold = 0 otherwise, where a price absent from the response counts
\* as 0.
C23_QueryThresholdFromPrices ==
    LET snapshot == result["graphql"]
        passPrice == PriceOrZero(reply.pass_price)
        failPrice == PriceOrZero(reply.fail_price)
    IN  snapshot.kind = "snapshot" =>
          /\ reply.kind = "ok"
          /\ snapshot.passPrice = passPrice
          /\ snapshot.failPrice = failPrice
          /\ IF failPrice > 0
               THEN snapshot.threshold * failPrice = (passPrice - failPrice) * 100
               ELSE snapshot.threshold = 0

\* A response without pass_price and with fail_price 10 became a snapshot of
\* threshold -100, and one without fail_price a snapshot of threshold 0
C23_Witness ==
    /\ result["graphql"].kind = "snapshot"
    /\ \/ /\ reply.pass_price = Absent /\ reply.fail_price = 10
          /\ result["graphql"].threshold = -100
       \/ /\ reply.pass_price = 12 /\ reply.fail_price = 10
          /\ result["graphql"].threshold = 20

\* The answers the strategy passes over: non-OK, a failed request or body,
\* a result lacking the proposal record or the price-details record
PassedOver ==
    {"non_ok", "network_error", "bad_json", "no_data", "proposal_only",
     "details_only"}

\* C24: the structured-query strategy queries the known endpoints one at a
\* time in list order; an endpoint that answers non-OK, fails or lacks either
\* record is passed over and the next one is tried; the strategy stops at the
\* first endpoint whose result holds both records and queries none after it;
\* when no endpoint qualifies it yields no data.
C24_EndpointsInListOrder ==
    [][ IF "graphql" \in inflight
          THEN \* the endpoint being queried answers
               /\ endpoint \in 1..Len(GRAPHQL_ENDPOINTS)
               /\ reply'.kind \in PassedOver \cup {"ok"}
               /\ (reply'.kind \in PassedOver /\ endpoint < Len(GRAPHQL_ENDPOINTS)) =>
                     /\ endpoint' = endpoint + 1
                     /\ "graphql" \in inflight'
                     /\ result'["graphql"] = result["graphql"]
               /\ (reply'.kind \in PassedOver /\ endpoint = Len(GRAPHQL_ENDPOINTS)) =>
                     /\ endpoint' = endpoint
                     /\ "graphql" \notin inflight'
                     /\ result'["graphql"] = Null
               /\ reply'.kind = "ok" =>
                     /\ endpoint' = endpoint
                     /\ "graphql" \notin inflight'
                     /\ result'["graphql"].kind = "snapshot"
          ELSE \* no endpoint is queried but the first, on invocation
               \/ endpoint' = endpoint /\ reply' = reply
               \/ /\ endpoint' = 1 /\ "graphql" \in inflight'
                  /\ calls'["graphql"] = calls["graphql"] + 1
               \/ endpoint' = 0 /\ pc' = "call" /\ reply' = NoReply
      ]_vars

\* Two endpoints were passed over and the third one's result was returned
C24_Witness ==
    /\ endpoint = 3
    /\ reply.kind = "ok"
    /\ result["graphql"].kind = "snapshot"
    /\ "graphql" \notin inflight

(***************************************************************************)
(* Properties of the reserve decoder, checked under SpecDecode             *)
(***************************************************************************)

\* The sample values greater than 1,000 and less than 10^18
InRange == {"thousand1", "million", "million12", "below18"}

\* The sample values as bigints
Words ==
    [zero      |-> <<0, 0, 0, 0>>,
     thousand  |-> <<0, 0, 0, 1000>>,
     thousand1 |-> <<0, 0, 0, 1001>>,
     million   |-> <<0, 0, 15, 16960>>,
     million12 |-> <<0, 0, 18, 20352>>,
     below18   |-> <<3552, 46771, 42851, 65535>>,
     tenTo18   |-> <<3552, 46771, 42852, 0>>,
     tenTo19   |-> <<35527, 8964, 35304, 0>>]

\* The candidate offsets in the order the claim gives
CandidateOffsets == <<8 + 6 * 32, 8 + 5 * 32, Len(buffer) - 16>>

\* The candidates that lie inside the data
InsideData == {k \in 1..3 : CandidateOffsets[k] >= 0
                              /\ CandidateOffsets[k] + 16 <= Len(buffer)}

\* The sample pairs whose bytes the data holds at candidate k
PairsAt(k) ==
    {p \in PairSamples :
        SubSeq(buffer, CandidateOffsets[k] + 1, CandidateOffsets[k] + 16)
          = U64[p[1]] \o U64[p[2]]}

\* The candidates holding two values in range
Qualifying ==
    {k \in InsideData : \E p \in PairsAt(k) : p[1] \in InRange /\ p[2] \in InRange}

\* C21: parseAmmAccount examines the candidate offsets in the order 8+6*32,
\* 8+5*32, length-16 and returns the two consecutive u64 values at the first
\* candidate where both are greater than 1,000 and less than 10^18;
\* implausible values at an earlier candidate do not stop the search; if no
\* candidate qualifies the result is none.
C21_FirstQualifyingCandidate ==
    (/\ parsed.amm.kind # "notrun"
     /\ Len(buffer) >= 100
     /\ \A k \in InsideData : PairsAt(k) # {}) =>
        IF Qualifying = {} THEN parsed.amm = ParsedNull
        ELSE LET k == CHOOSE q \in Qualifying : \A o \in Qualifying : q <= o
             IN  \E p \in PairsAt(k) :
                    parsed.amm = [kind |-> "reserves",
                                  baseReserves |-> Words[p[1]],
                                  quoteReserves |-> Words[p[2]]]

\* 10^19 and 1,000,000 at offset 8+6*32, the only plausible pair at offset
\* 8+5*32: the decoder returned that pair
C21_Witness ==
    /\ buffer = PoolData(300, <<"tenTo19", "million">>, <<"million", "million12">>,
                         <<"zero", "zero">>)
    /\ parsed.amm = [kind |-> "reserves", baseReserves |-> <<0, 0, 15, 16960>>,
                     quoteReserves |-> <<0, 0, 18, 20352>>]

(***************************************************************************)
(* Properties of chain reconstruction, checked under SpecRpc               *)
(***************************************************************************)

\* (baseReserves, quoteReserves) of the sample pools with plausible reserves
PoolReserves == [r12 |-> <<1000000, 1200000>>, r09 |-> <<1000000, 900000>>]

\* num / den is the quotient quote / base
IsQuotient(f, quote, base) == f.den > 0 /\ f.num * base = f.den * quote

\* t = (p - f) / f * 100 for positive fractions p and f
IsThresholdOf(t, p, f) ==
    /\ t.den > 0
    /\ t.num * (f.num * p.den) = t.den * ((p.num * f.den - f.num * p.den) * 100)

\* C22: in chain reconstruction each price is quoteReserve / baseReserve of
\* its pool and threshold = (passPrice - failPrice) / failPrice * 100; a
\* snapshot is produced only when both prices are positive (base 1,000,000
\* and quote 1,200,000 give 1.2; base 1,000,000 and quote 900,000 give 0.9;
\* threshold 33.33...%).
C22_PricesFromReserves ==
    rpc.ret.kind = "snapshot" =>
        /\ chain.made.pass \in DOMAIN PoolReserves
        /\ chain.made.fail \in DOMAIN PoolReserves
        /\ IsQuotient(rpc.ret.passPrice, PoolReserves[chain.made.pass][2],
                      PoolReserves[chain.made.pass][1])
        /\ IsQuotient(rpc.ret.failPrice, PoolReserves[chain.made.fail][2],
                      PoolReserves[chain.made.fail][1])
        /\ rpc.ret.passPrice.num > 0 /\ rpc.ret.failPrice.num > 0
        /\ IsThresholdOf(rpc.ret.threshold, rpc.ret.passPrice, rpc.ret.failPrice)
        /\ (chain.made.pass = "r12" /\ chain.made.fail = "r09") =>
              /\ rpc.ret.passPrice = [num |-> 6, den |-> 5]
              /\ rpc.ret.failPrice = [num |-> 9, den |-> 10]
              /\ rpc.ret.threshold = [num |-> 100, den |-> 3]

\* The pools of the example were reconstructed into a snapshot of threshold
\* 100/3 per cent
C22_Witness ==
    /\ chain.made.pass = "r12" /\ chain.made.fail = "r09"
    /\ rpc.ret.kind = "snapshot"
    /\ rpc.ret.threshold = [num |-> 100, den |-> 3]

\* The labels of an account that is absent or that its decoder refuses
Unusable == {"absent", "short", "implausible"}

\* C25: chain reconstruction yields no data whenever the proposal account,
\* the question account or either pool account is absent, or any of the
\* proposal, question or reserve decodes fails; after an absent pool account
\* it issues no further lookup in that invocation, whatever the proposal
\* state is.
C25_AbsentOrUndecodableIsNoData ==
    /\ Len(rpc.lookups) <= 4
    /\ rpc.pc = "done" =>
          /\ (\E a \in DOMAIN chain.made : chain.made[a] \in Unusable) =>
                rpc.ret.kind = "null"
          /\ (chain.made.proposal = "absent" \/ chain.made.proposal = "short") =>
                Len(rpc.lookups) = 1
          /\ (\E p \in {"pass", "fail"} : rpc.settled[p].kind = "absent") =>
                /\ rpc.decodes = <<>>
                /\ Len(rpc.lookups) = 4

\* The fail pool of an executed proposal was absent: no data, four lookups
C25_Witness ==
    /\ rpc.pc = "done"
    /\ chain.made.proposal = "executed"
    /\ chain.made.pass = "r12" /\ chain.made.fail = "absent"
    /\ rpc.settled["fail"].kind = "absent"
    /\ rpc.pending = {}
    /\ rpc.ret.kind = "null"
    /\ Len(rpc.lookups) = 4

\* The status chain reconstruction reports for the sample proposals
StatusOf == [pending |-> "pending", executed |-> "executed", unlisted |-> "unknown"]

\* (passPrice, failPrice, threshold) by the labels of the two pools
QuoteOf(pa, fa) ==
    CASE pa = "r12" /\ fa = "r09" -> <<<<6, 5>>, <<9, 10>>, <<100, 3>>>>
      [] pa = "r09" /\ fa = "r12" -> <<<<9, 10>>, <<6, 5>>, <<-25, 1>>>>
      [] pa = "r12" /\ fa = "r12" -> <<<<6, 5>>, <<6, 5>>, <<0, 1>>>>
      [] pa = "r09" /\ fa = "r09" -> <<<<9, 10>>, <<9, 10>>, <<0, 1>>>>

\* C26: in chain reconstruction the two pool-account lookups are both
\* issued before either result is consumed, no reserve decoding starts
\* until both lookups have completed, and the strategy's result is the same
\* whichever of the two lookups completes first; if either lookup fails the
\* strategy yields no data.
C26_PoolLookupsJoin ==
    /\ rpc.landed # <<>> => Len(rpc.lookups) = 4
    /\ rpc.decodes # <<>> => rpc.pending = {} /\ Len(rpc.landed) = 2
    /\ (rpc.pc = "done" /\ rpc.landed # <<>>) =>
          IF chain.made.pass \in DOMAIN PoolReserves
               /\ chain.made.fail \in DOMAIN PoolReserves
            THEN LET q == QuoteOf(chain.made.pass, chain.made.fail)
                 IN  /\ rpc.ret.kind = "snapshot"
                     /\ rpc.ret.proposalPubkey = ConfigPubkey
                     /\ rpc.ret.passPrice = [num |-> q[1][1], den |-> q[1][2]]
                     /\ rpc.ret.failPrice = [num |-> q[2][1], den |-> q[2][2]]
                     /\ rpc.ret.threshold = [num |-> q[3][1], den |-> q[3][2]]
                     /\ rpc.ret.status = StatusOf[chain.made.proposal]
                     /\ rpc.ret.timestamp = now
            ELSE rpc.ret.kind = "null"
    /\ (rpc.pc = "done" /\ \E p \in {"pass", "fail"} : rpc.settled[p].kind = "rejects")
          => rpc.ret.kind = "null"

\* The fail pool's lookup completed before the pass pool's and the snapshot
\* is the one of the other order
C26_Witness ==
    /\ rpc.pc = "done"
    /\ rpc.landed = <<"fail", "pass">>
    /\ rpc.ret.kind = "snapshot"
    /\ rpc.decodes = <<"pass", "fail">>

(***************************************************************************)
(* Properties of the page strategies, checked under SpecPage               *)
(***************************************************************************)

\* The rendered-page extraction ran and had to read the text: the blob gave
\* no threshold
TextExtraction ==
    /\ rendered # NotExtracted
    /\ page.blob.kind # "object" \/ page.blob.threshold.null

\* The page shows both TWAP prices and the fail price is positive
HasPrices == ~page.passPrice.null /\ ~page.failPrice.null /\ page.failPrice.v > 0

\* (passPrice - failPrice) / failPrice * 100 of the TWAP prices, in
\* hundredths of a per cent
PriceDerived == ((page.passPrice.v - page.failPrice.v) * 10000) \div page.failPrice.v

\* C27: in the rendered-page strategy's text extraction, when both a
\* context-derived threshold and a price-derived threshold (from the
\* Approve/Reject TWAP prices, failPrice > 0) are available, the snapshot's
\* threshold is the price-derived one if they differ by more than 0.1
\* percentage points and the context-derived one otherwise; when only one
\* of the two is available, that one is used.
C27_PriceOverTextBeyondTolerance ==
    TextExtraction =>
        LET context == rendered.found
        IN  /\ (~context.null /\ HasPrices) =>
                  /\ rendered.ret.kind = "snapshot"
                  /\ rendered.ret.threshold =
                        IF Abs(context.v - PriceDerived) > 10
                          THEN PriceDerived ELSE context.v
            /\ (~context.null /\ ~HasPrices) =>
                  /\ rendered.ret.kind = "snapshot"
                  /\ rendered.ret.threshold = context.v
            /\ (context.null /\ HasPrices) =>
                  /\ rendered.ret.kind = "snapshot"
                  /\ rendered.ret.threshold = PriceDerived

\* The text gave 5.00 near "approved", the prices 1.2 and 1.0 give 20.00:
\* the snapshot has 20.00
C27_Witness ==
    /\ TextExtraction
    /\ rendered.found = Number(500)
    /\ page.passPrice = Number(1200) /\ page.failPrice = Number(1000)
    /\ rendered.ret.kind = "snapshot"
    /\ rendered.ret.threshold = 2000

\* The positive matches in range with the phrase within 150 characters
MatchesNear(phrase) ==
    {i \in 1..Len(page.tokens) :
        /\ page.tokens[i].value > 1 /\ page.tokens[i].value <= 10000
        /\ \E n \in page.tokens[i].near : n.phrase = phrase /\ n.dist <= 150}

\* C28: in the rendered-page strategy's text scan, when one positive
\* percentage match has "approved" in its +/-150-character context and
\* another positive match has "pass threshold" in its context, the
\* context-derived threshold is the value of the "approved" match,
\* whichever of the two matches comes first in the text.
C28_ApprovedBeforePassThreshold ==
    (/\ TextExtraction
     /\ \E i \in MatchesNear("approved"), j \in MatchesNear("pass threshold") : i # j)
      => \E i \in MatchesNear("approved") :
            rendered.found = Number(page.tokens[i].value)

\* C29: static HTML extraction applies the same extraction heuristics as
\* the rendered-page strategy: for the same page content it yields the same
\* threshold and prices, including the same context rule for picking a
\* percentage and the same price-over-text reconciliation when the two
\* thresholds differ by more than 0.1.
C29_StaticEqualsRendered ==
    (rendered # NotExtracted /\ web.pc = "done" /\ web.status = "ok") =>
        /\ web.ret.kind = rendered.ret.kind
        /\ web.ret.threshold = rendered.ret.threshold
        /\ web.ret.passPrice = rendered.ret.passPrice
        /\ web.ret.failPrice = rendered.ret.failPrice

\* C30: one invocation of the static HTML strategy issues exactly one page
\* request, and only after the 2-second pacing delay has elapsed; a
\* rate-limited (429) or other non-OK response makes the strategy yield no
\* data without a second request in that invocation.
C30_OneRequestAfterTheDelay ==
    /\ web.requests <= 1
    /\ web.requests = 1 <=> web.pc \in {"fetch", "done"}
    /\ web.requests = 1 => web.requestedAt >= web.timerSet + 2000
    /\ (web.pc = "done" /\ web.status \in {"rate_limited", "non_ok"}) =>
          /\ web.ret.kind = "null"
          /\ web.requests = 1

\* The one request went out two seconds after the call and was answered 429
C30_Witness ==
    /\ web.pc = "done"
    /\ web.status = "rate_limited"
    /\ web.requests = 1
    /\ web.requestedAt = web.timerSet + 2000
    /\ web.ret.kind = "null"

(***************************************************************************)
(* Properties of the rendered-page strategy in steps, checked under        *)
(* SpecBrowser and SpecBrowserFair                                         *)
(***************************************************************************)

\* The strategy has looked at the title again after its waits
Rechecked == browser.currentTitle # "none"

\* C31: the rendered-page strategy always returns; once it has detected the
\* interstitial it waits at most the navigation timeout for it to clear, and
\* when the page is still the interstitial after the waits it never reads a
\* threshold from it and returns no data.
C31_BoundedWaitThenNoData ==
    /\ <>(browser.pc = "done")
    /\ [](browser.waited <= NavigationTimeout)
    /\ []((Rechecked /\ IsChallenge(browser.site)) =>
            /\ ~browser.extracted
            /\ browser.pc = "done" => browser.ret = Null)

\* The interstitial was detected, did not clear within the whole wait, and
\* the strategy returned no data
C31_Witness ==
    /\ browser.pc = "done"
    /\ browser.detected
    /\ browser.waited = NavigationTimeout
    /\ StillOnChallenge(browser.currentTitle)
    /\ browser.ret = Null

\* C38: once the rendered-page strategy has launched a browser, every path
\* out of it goes through the call of browser.close() before the strategy's
\* result is there, and the result is the completion of the try block
\* whether the close succeeded or failed.
C38_CloseBeforeEveryResult ==
    (browser.launched /\ browser.pc = "done") =>
        /\ browser.closeCalled
        /\ browser.ret = CatchReturnNull(browser.body)

\* A snapshot was returned although closing the browser failed
C38_Witness ==
    /\ browser.pc = "done"
    /\ browser.launched
    /\ browser.closeCalled
    /\ ~browser.closed
    /\ Truthy(browser.ret)

(***************************************************************************)
(* Properties of the update cycle, checked under SpecCycles                *)
(***************************************************************************)

\* The cycle that just ended fetched a snapshot
FetchedData == last.op = "update" /\ Truthy(last.data)

\* The newest entry of the persisted history, when it has one
HasEntries == file.kind = "object" /\ file.entriesKind = "array" /\ Len(file.entries) > 0

NewestEntry == file.entries[Len(file.entries)]

\* What the report copies from the snapshot (tracker.ts:114-124)
ReportOfSnapshot(report, data) ==
    /\ report.current = data.threshold
    /\ report.passPrice = data.passPrice
    /\ report.failPrice = data.failPrice
    /\ report.timestamp = data.timestamp
    /\ report.status = data.status

C33_NoDataAppendsNothing ==
    (last.op = "update" /\ ~Truthy(last.data)) =>
        /\ file = last.pre
        /\ last.write = "none"
        /\ last.report = NoReport
        /\ last.sent \in {"notice", "none"}
        /\ ~last.returned

\* The notice went out over a history that has entries, which are still there
C33_Witness ==
    /\ last.op = "update"
    /\ last.sent = "notice"
    /\ HasEntries
    /\ file = last.pre
    /\ ~last.returned

\* C34: the entry appended for the snapshot is never the previous-hour sample
\* of that snapshot's report: the selected entry, if any, was in the history
\* before this cycle, and a cycle that started or reset the history has no
\* previous-hour sample.
C34_OwnEntryNeverPreviousHour ==
    (FetchedData /\ ~last.raised) =>
        LET before == LoadHistory(last.pre)
            reset == Falsy(before)
                       \/ before.proposalPubkey # last.data.proposalPubkey
        IN  /\ last.report.previousHour.null <=> last.closest = 0
            /\ last.closest # 0 =>
                   /\ file.entries[last.closest] # HistoryEntry(last.data)
                   /\ file.entries[last.closest] \in Range(before.entries)
                   /\ DateParse(file.entries[last.closest].timestamp)
                         < last.data.timestamp
                   /\ last.write = "ok" => last.closest < Len(file.entries)
            /\ reset => last.closest = 0

\* A cycle appended its entry and took its previous-hour sample from an
\* entry an hour older
C34_Witness ==
    /\ FetchedData
    /\ last.write = "ok"
    /\ last.closest # 0
    /\ HasEntries
    /\ NewestEntry = HistoryEntry(last.data)
    /\ DateParse(file.entries[last.closest].timestamp) = last.data.timestamp - OneHour

C35_SnapshotCarriesConfiguredIdentity ==
    /\ Truthy(ret) => ret.proposalPubkey = ConfigPubkey
    /\ \A s \in Strategies :
         Truthy(result[s]) => result[s].proposalPubkey = ConfigPubkey

(***************************************************************************)
(* Two calls of sendThresholdUpdate in one process, checked under          *)
(* SpecOverlap                                                             *)
(***************************************************************************)

\* Both calls have returned after fetching a snapshot of the same proposal;
\* the histories of the model stay below the cap
BothAppended ==
    /\ \A i \in Instances : cycles[i].pc = "done" /\ Truthy(cycles[i].data)
    /\ cycles[1].data.proposalPubkey = cycles[2].data.proposalPubkey

BothEntriesPresent ==
    /\ WellFormed(file)
    /\ \A i \in Instances : HistoryEntry(cycles[i].data) \in Range(file.entries)

MinusHundred == [neg |-> TRUE, bits |-> <<1, 1, 0, 0, 1>>, exp |-> 2]

Priced == pools.pc = "done" /\ pools.decoded

\* C39 as stated: every snapshot of chain reconstruction has passPrice > 0,
\* failPrice > 0 and threshold > -100, and after a successful decode of both
\* reserves the positive-price check never rejects.
C39_AsStated ==
    Priced =>
        /\ Truthy(pools.ret)
        /\ DoublePositive(pools.ret.passPrice)
        /\ DoublePositive(pools.ret.failPrice)
        /\ DoubleLess(MinusHundred, pools.ret.threshold)

\* C39: every snapshot of chain reconstruction has passPrice > 0,
\* failPrice > 0 and threshold >= -100, and after a successful decode of both
\* reserves the positive-price check never rejects; the threshold is -100
\* itself only when the pass price is so far below the fail price that their
\* difference rounds to minus the fail price.
C39_PositivePricesThresholdFromMinus100 ==
    Priced =>
        /\ Truthy(pools.ret)
        /\ DoublePositive(pools.ret.passPrice)
        /\ DoublePositive(pools.ret.failPrice)
        /\ ~DoubleLess(pools.ret.threshold, MinusHundred)
        /\ pools.ret.threshold = MinusHundred =>
              DoubleSub(pools.ret.passPrice, pools.ret.failPrice)
                 = [pools.ret.failPrice EXCEPT !.neg = TRUE]

\* Reserves of 10^18 - 1 to 1,001 in the pass pool and 1,001 to 10^18 - 1 in
\* the fail pool: a snapshot with threshold -100
C39_Witness ==
    /\ Priced
    /\ Truthy(pools.ret)
    /\ pools.ret.threshold = MinusHundred

====
